---- MODULE Spec2Model ----
(***************************************************************************)
(* secretShare: the secret lifecycle (create, checkRequirements,           *)
(* getBySlug, getUserSecrets, update, delete) and the accounts (register,  *)
(* login, me) of src/server/routers/secrets.ts over the Prisma store, and  *)
(* the in-memory rate limiter of src/lib/rate-limit.ts.                    *)
(*                                                                         *)
(* A handler is a process: it runs without interruption from one `await`   *)
(* to the next (JavaScript's run-to-completion), and other requests run    *)
(* between its awaits.  Time is counted in minutes.                        *)
(*                                                                         *)
(* The response of a step is an operator of the state the step is taken    *)
(* in (...Response): a step that ends its request sends it, NoResult       *)
(* otherwise.                                                              *)
(***************************************************************************)
EXTENDS Integers, Sequences, FiniteSets, TLC

\* The rows carry no createdAt and updatedAt: nothing reads them but the
\* results, and the ids are in creation order.

VARIABLES
    now,         \* Date.now() / new Date()
    users,       \* table "users", in insertion order
    secrets,     \* table "secrets": id -> row, for the ids stored
    nextId,      \* the next fresh row id (cuid(): never reused)
    accessLogs,  \* table "access_logs", in insertion order
    limiter,     \* the RateLimiter instances: name -> [windowMs, maxRequests, store]
    req,         \* the requests in flight: slot -> the handler's locals and position
    disclosed,   \* history: id -> how often getBySlug has returned its content
    seen         \* history: per identifier, the secret-access checks of its window

vars == <<now, users, secrets, nextId, accessLogs, limiter, req, disclosed, seen>>

----------------------------------------------------------------------------
(* Bounds of the model *)

MaxTime == 1          \* the clock of SpecExpiry stops here
MaxSecrets == 2       \* secrets created in one run
MaxCalls == 2         \* checks of the client in one window of an instance
RLMaxTime == 3        \* the clock of SpecRL stops here
RLMaxWindow == 1      \* SpecRL: windowMs of the instance is in 1 .. RLMaxWindow
RLMaxRequests == 2    \* SpecRL: maxRequests of the instance is in 1 .. RLMaxRequests
RLMaxRejects == 2     \* SpecRL: rejected checks of one identifier in one window
QuotaMaxTime == 6     \* the clock of SpecQuota stops here, after the first window

Procs == {"r1", "r2"}
Client == "10.0.0.1"
RLClients == {"10.0.0.1", "10.0.0.2"}
Owner == "u1"
Users == {"u1", "u2"}
SlugSeq == <<"s1", "s2">>
Slugs == {SlugSeq[i] : i \in DOMAIN SlugSeq}
Contents == {"X"}

----------------------------------------------------------------------------
(* Values *)

Null == "null"            \* null / undefined of a string-valued field
NoDate == -1              \* null / undefined of a DateTime? field

\* bcrypt.hash(password, 12) and bcrypt.compare(password, hash)
BcryptHash(password) == <<"$2a$12$", password>>
BcryptCompare(password, hash) == BcryptHash(password) = hash
NoHash == <<"null", "null">>

\* truthiness that takes the empty string for a value
TruthyEmpty(s) == s # Null

\* JavaScript truthiness of an optional string: undefined and "" are falsy
Truthy(s) == s # Null /\ s # ""

NoSecret ==
    [id |-> 0, title |-> Null, content |-> Null, slug |-> Null,
     password |-> NoHash, expiresAt |-> NoDate, isOneTimeAccess |-> FALSE,
     hasBeenAccessed |-> FALSE, userId |-> Null]

Found(secret) == secret.id # 0

\* new TRPCError({ code, message })
TRPCError(code, message) == [code |-> code, message |-> message]
Ok(data) == [code |-> "OK", data |-> data]
Pass == [code |-> "PASS"]
\* an exception that is no TRPCError reaches the caller as INTERNAL_SERVER_ERROR
InternalError == TRPCError("INTERNAL_SERVER_ERROR", "persistence error")
NoResult == [code |-> "NONE"]

----------------------------------------------------------------------------
(* src/lib/rate-limit.ts *)

NoEntry == [count |-> 0, resetTime |-> NoDate]

RateLimiter(windowMs, maxRequests) ==
    [windowMs |-> windowMs, maxRequests |-> maxRequests,
     store |-> [k \in {} |-> NoEntry]]

StoreSet(store, identifier, entry) ==
    [k \in DOMAIN store \cup {identifier} |->
        IF k = identifier THEN entry ELSE store[k]]

\* RateLimiter.check with one entry for all identifiers
RateLimiterCheckShared(rl, identifier, t) ==
    LET has == "shared" \in DOMAIN rl.store
        entry == IF has THEN rl.store["shared"] ELSE NoEntry
        inc == [entry EXCEPT !.count = entry.count + 1]
    IN  IF ~has \/ t > entry.resetTime
        THEN [allowed |-> TRUE,
              remainingRequests |-> rl.maxRequests - 1,
              resetTime |-> t + rl.windowMs,
              rl |-> [rl EXCEPT !.store = StoreSet(rl.store, "shared",
                         [count |-> 1, resetTime |-> t + rl.windowMs])]]
        ELSE IF entry.count >= rl.maxRequests
        THEN [allowed |-> FALSE, remainingRequests |-> 0,
              resetTime |-> entry.resetTime, rl |-> rl]
        ELSE [allowed |-> TRUE,
              remainingRequests |-> rl.maxRequests - inc.count,
              resetTime |-> entry.resetTime,
              rl |-> [rl EXCEPT !.store = StoreSet(rl.store, "shared", inc)]]

\* RateLimiter.check with the limit off by one (count > maxRequests)
RateLimiterCheckOffByOne(rl, identifier, t) ==
    LET has == identifier \in DOMAIN rl.store
        entry == IF has THEN rl.store[identifier] ELSE NoEntry
        inc == [entry EXCEPT !.count = entry.count + 1]
    IN  IF ~has \/ t > entry.resetTime
        THEN [allowed |-> TRUE,
              remainingRequests |-> rl.maxRequests - 1,
              resetTime |-> t + rl.windowMs,
              rl |-> [rl EXCEPT !.store = StoreSet(rl.store, identifier,
                         [count |-> 1, resetTime |-> t + rl.windowMs])]]
        ELSE IF entry.count > rl.maxRequests
        THEN [allowed |-> FALSE, remainingRequests |-> 0,
              resetTime |-> entry.resetTime, rl |-> rl]
        ELSE [allowed |-> TRUE,
              remainingRequests |-> rl.maxRequests - inc.count,
              resetTime |-> entry.resetTime,
              rl |-> [rl EXCEPT !.store = StoreSet(rl.store, identifier, inc)]]

\* RateLimiter.check that reads the count and does not store the increment
RateLimiterCheckNoIncrement(rl, identifier, t) ==
    LET has == identifier \in DOMAIN rl.store
        entry == IF has THEN rl.store[identifier] ELSE NoEntry
    IN  IF ~has \/ t > entry.resetTime
        THEN [allowed |-> TRUE,
              remainingRequests |-> rl.maxRequests - 1,
              resetTime |-> t + rl.windowMs,
              rl |-> [rl EXCEPT !.store = StoreSet(rl.store, identifier,
                         [count |-> 1, resetTime |-> t + rl.windowMs])]]
        ELSE IF entry.count >= rl.maxRequests
        THEN [allowed |-> FALSE, remainingRequests |-> 0,
              resetTime |-> entry.resetTime, rl |-> rl]
        ELSE [allowed |-> TRUE,
              remainingRequests |-> rl.maxRequests - (entry.count + 1),
              resetTime |-> entry.resetTime,
              rl |-> rl]

\* RateLimiter.check that counts the rejected checks too
RateLimiterCheckCountsRejected(rl, identifier, t) ==
    LET has == identifier \in DOMAIN rl.store
        entry == IF has THEN rl.store[identifier] ELSE NoEntry
        inc == [entry EXCEPT !.count = entry.count + 1]
    IN  IF ~has \/ t > entry.resetTime
        THEN [allowed |-> TRUE,
              remainingRequests |-> rl.maxRequests - 1,
              resetTime |-> t + rl.windowMs,
              rl |-> [rl EXCEPT !.store = StoreSet(rl.store, identifier,
                         [count |-> 1, resetTime |-> t + rl.windowMs])]]
        ELSE IF entry.count >= rl.maxRequests
        THEN [allowed |-> FALSE, remainingRequests |-> 0,
              resetTime |-> entry.resetTime,
              rl |-> [rl EXCEPT !.store = StoreSet(rl.store, identifier, inc)]]
        ELSE [allowed |-> TRUE,
              remainingRequests |-> rl.maxRequests - inc.count,
              resetTime |-> entry.resetTime,
              rl |-> [rl EXCEPT !.store = StoreSet(rl.store, identifier, inc)]]

\* RateLimiter.check of a sliding lockout: a rejected check moves resetTime
RateLimiterCheckExtends(rl, identifier, t) ==
    LET has == identifier \in DOMAIN rl.store
        entry == IF has THEN rl.store[identifier] ELSE NoEntry
        inc == [entry EXCEPT !.count = entry.count + 1]
        moved == [entry EXCEPT !.resetTime = t + rl.windowMs]
    IN  IF ~has \/ t > entry.resetTime
        THEN [allowed |-> TRUE,
              remainingRequests |-> rl.maxRequests - 1,
              resetTime |-> t + rl.windowMs,
              rl |-> [rl EXCEPT !.store = StoreSet(rl.store, identifier,
                         [count |-> 1, resetTime |-> t + rl.windowMs])]]
        ELSE IF entry.count >= rl.maxRequests
        THEN [allowed |-> FALSE, remainingRequests |-> 0,
              resetTime |-> moved.resetTime,
              rl |-> [rl EXCEPT !.store = StoreSet(rl.store, identifier, moved)]]
        ELSE [allowed |-> TRUE,
              remainingRequests |-> rl.maxRequests - inc.count,
              resetTime |-> entry.resetTime,
              rl |-> [rl EXCEPT !.store = StoreSet(rl.store, identifier, inc)]]

\* RateLimiter.check: the result and the limiter after the call
RateLimiterCheck(rl, identifier, t) ==
    LET has == identifier \in DOMAIN rl.store
        entry == IF has THEN rl.store[identifier] ELSE NoEntry
    IN  IF ~has \/ t > entry.resetTime
        THEN LET newEntry == [count |-> 1, resetTime |-> t + rl.windowMs]
             IN  [allowed |-> TRUE,
                  remainingRequests |-> rl.maxRequests - 1,
                  resetTime |-> newEntry.resetTime,
                  rl |-> [rl EXCEPT !.store = StoreSet(rl.store, identifier, newEntry)]]
        ELSE IF entry.count >= rl.maxRequests
        THEN [allowed |-> FALSE,
              remainingRequests |-> 0,
              resetTime |-> entry.resetTime,
              rl |-> rl]
        ELSE LET inc == [entry EXCEPT !.count = entry.count + 1]
             IN  [allowed |-> TRUE,
                  remainingRequests |-> rl.maxRequests - inc.count,
                  resetTime |-> entry.resetTime,
                  rl |-> [rl EXCEPT !.store = StoreSet(rl.store, identifier, inc)]]

\* RateLimiter.cleanup that deletes an entry at the instant its window ends
RateLimiterCleanupAtReset(rl, t) ==
    [rl EXCEPT !.store =
        [k \in {i \in DOMAIN rl.store : ~(t >= rl.store[i].resetTime)} |-> rl.store[k]]]

\* RateLimiter.cleanup
RateLimiterCleanup(rl, t) ==
    [rl EXCEPT !.store =
        [k \in {i \in DOMAIN rl.store : ~(t > rl.store[i].resetTime)} |-> rl.store[k]]]

\* the four instances (minutes, requests)
GeneralWindow == 15
GeneralMax == 100
SecretCreateWindow == 60
SecretCreateMax == 10
SecretAccessWindow == 5
SecretAccessMax == 20
AuthWindow == 15
AuthMax == 5

Limiters ==
    [general |-> RateLimiter(GeneralWindow, GeneralMax),
     secretCreate |-> RateLimiter(SecretCreateWindow, SecretCreateMax),
     secretAccess |-> RateLimiter(SecretAccessWindow, SecretAccessMax),
     auth |-> RateLimiter(AuthWindow, AuthMax)]

\* history of the checks of one identifier, as an observer of the calls counts
\* them: a window opens with the first check and with the first check after the
\* end of the last one, and lasts windowMs
NoWindow == [end |-> NoDate, n |-> 0, ok |-> 0, k |-> 0]

Observe(m, identifier, t, allowed, windowMs) ==
    LET w == IF identifier \in DOMAIN m THEN m[identifier] ELSE NoWindow
        opens == w.k = 0 \/ t > w.end
        cur == IF opens THEN [end |-> t + windowMs, n |-> 0, ok |-> 0, k |-> w.k + 1]
               ELSE w
        nxt == [cur EXCEPT !.n = cur.n + 1,
                           !.ok = cur.ok + (IF allowed THEN 1 ELSE 0)]
    IN  [i \in DOMAIN m \cup {identifier} |-> IF i = identifier THEN nxt ELSE m[i]]

----------------------------------------------------------------------------
(* The store *)

FindUniqueBySlug(slug) ==
    IF \E id \in DOMAIN secrets : secrets[id].slug = slug
    THEN secrets[CHOOSE id \in DOMAIN secrets : secrets[id].slug = slug]
    ELSE NoSecret

FindUniqueById(id) ==
    IF id \in DOMAIN secrets THEN secrets[id] ELSE NoSecret

\* prisma.secret.delete, with ON DELETE CASCADE of access_logs.secretId
WithoutSecret(id) == [k \in DOMAIN secrets \ {id} |-> secrets[k]]
WithoutLogsOf(id) == SelectSeq(accessLogs, LAMBDA e : e.secretId # id)

----------------------------------------------------------------------------
(* Requests *)

\* a handler's inputs and locals
Idle ==
    [op |-> "none", pc |-> "idle", slug |-> Null, id |-> 0, password |-> Null,
     title |-> Null, expiresAt |-> NoDate, user |-> Null, client |-> Null,
     secret |-> NoSecret, email |-> Null, name |-> Null]

At(p, op, pc) == req[p].op = op /\ req[p].pc = pc

----------------------------------------------------------------------------
(* secretRouter.getBySlug *)

\* the gates of getBySlug without the check of hasBeenAccessed
GetBySlugGateNoConsumed(secret, password, t) ==
    IF ~Found(secret)
    THEN TRPCError("NOT_FOUND", "Secret not found")
    ELSE IF secret.expiresAt # NoDate /\ secret.expiresAt < t
    THEN TRPCError("NOT_FOUND", "Secret has expired")
    ELSE IF secret.password # NoHash
    THEN IF ~Truthy(password)
         THEN TRPCError("UNAUTHORIZED", "Password required")
         ELSE IF ~BcryptCompare(password, secret.password)
         THEN TRPCError("UNAUTHORIZED", "Invalid password")
         ELSE Pass
    ELSE Pass

\* the gates of getBySlug with a password gate that accepts any password given
GetBySlugGateAnyPassword(secret, password, t) ==
    IF ~Found(secret)
    THEN TRPCError("NOT_FOUND", "Secret not found")
    ELSE IF secret.expiresAt # NoDate /\ secret.expiresAt < t
    THEN TRPCError("NOT_FOUND", "Secret has expired")
    ELSE IF secret.isOneTimeAccess /\ secret.hasBeenAccessed
    THEN TRPCError("NOT_FOUND", "Secret has already been accessed")
    ELSE IF secret.password # NoHash /\ ~Truthy(password)
    THEN TRPCError("UNAUTHORIZED", "Password required")
    ELSE Pass

\* the gates of getBySlug with the password gate first
GetBySlugGatePasswordFirst(secret, password, t) ==
    IF ~Found(secret)
    THEN TRPCError("NOT_FOUND", "Secret not found")
    ELSE IF secret.password # NoHash /\ ~Truthy(password)
    THEN TRPCError("UNAUTHORIZED", "Password required")
    ELSE IF secret.password # NoHash /\ ~BcryptCompare(password, secret.password)
    THEN TRPCError("UNAUTHORIZED", "Invalid password")
    ELSE IF secret.expiresAt # NoDate /\ secret.expiresAt < t
    THEN TRPCError("NOT_FOUND", "Secret has expired")
    ELSE IF secret.isOneTimeAccess /\ secret.hasBeenAccessed
    THEN TRPCError("NOT_FOUND", "Secret has already been accessed")
    ELSE Pass

\* the gates between the lookup and the access log: the error thrown, or Pass
GetBySlugGate(secret, password, t) ==
    IF ~Found(secret)
    THEN TRPCError("NOT_FOUND", "Secret not found")
    ELSE IF secret.expiresAt # NoDate /\ secret.expiresAt < t
    THEN TRPCError("NOT_FOUND", "Secret has expired")
    ELSE IF secret.isOneTimeAccess /\ secret.hasBeenAccessed
    THEN TRPCError("NOT_FOUND", "Secret has already been accessed")
    ELSE IF secret.password # NoHash
    THEN IF ~Truthy(password)
         THEN TRPCError("UNAUTHORIZED", "Password required")
         ELSE IF ~BcryptCompare(password, secret.password)
         THEN TRPCError("UNAUTHORIZED", "Invalid password")
         ELSE Pass
    ELSE Pass

\* the result of getBySlug with the title in the place of the content
GetBySlugResultOfTitle(secret) ==
    Ok([id |-> secret.id, title |-> secret.title, content |-> secret.title,
        expiresAt |-> secret.expiresAt, isOneTimeAccess |-> secret.isOneTimeAccess])

GetBySlugResult(secret) ==
    Ok([id |-> secret.id, title |-> secret.title, content |-> secret.content,
        expiresAt |-> secret.expiresAt, isOneTimeAccess |-> secret.isOneTimeAccess])

\* the call up to its first await: the rate limit of secret access
GetBySlugStartResponse(client) ==
    IF ~RateLimiterCheck(limiter.secretAccess, client, now).allowed
    THEN TRPCError("TOO_MANY_REQUESTS",
                   "Too many secret access attempts. Please try again later.")
    ELSE NoResult

\* getBySlug that takes its check of the limiter only for a slug that is stored
GetBySlugStartAfterLookup(p, slug, password, client) ==
    /\ req[p].pc = "idle"
    /\ IF Found(FindUniqueBySlug(slug))
       THEN /\ limiter' = [limiter EXCEPT !.secretAccess =
                             RateLimiterCheck(limiter.secretAccess, client, now).rl]
            /\ req' = IF GetBySlugStartResponse(client) = NoResult
                      THEN [req EXCEPT ![p] =
                              [Idle EXCEPT !.op = "getBySlug", !.pc = "find",
                                           !.slug = slug, !.password = password,
                                           !.client = client]]
                      ELSE req
            /\ seen' = Observe(seen, client, now,
                               GetBySlugStartResponse(client) = NoResult,
                               limiter.secretAccess.windowMs)
       ELSE /\ req' = [req EXCEPT ![p] =
                         [Idle EXCEPT !.op = "getBySlug", !.pc = "find",
                                      !.slug = slug, !.password = password,
                                      !.client = client]]
            /\ UNCHANGED <<limiter, seen>>
    /\ UNCHANGED <<users, now, secrets, nextId, accessLogs, disclosed>>

GetBySlugStart(p, slug, password, client) ==
    /\ req[p].pc = "idle"
    /\ limiter' = [limiter EXCEPT !.secretAccess =
                     RateLimiterCheck(limiter.secretAccess, client, now).rl]
    /\ req' = IF GetBySlugStartResponse(client) = NoResult
              THEN [req EXCEPT ![p] =
                      [Idle EXCEPT !.op = "getBySlug", !.pc = "find", !.slug = slug,
                                   !.password = password, !.client = client]]
              ELSE req
    /\ seen' = Observe(seen, client, now, GetBySlugStartResponse(client) = NoResult,
                       limiter.secretAccess.windowMs)
    /\ UNCHANGED <<users, now, secrets, nextId, accessLogs, disclosed>>

\* prisma.secret.findUnique({ where: { slug } }), then the gates (bcrypt.compare
\* reads nothing shared); prisma.accessLog.create is awaited next
GetBySlugFindResponse(p) ==
    LET gate == GetBySlugGate(FindUniqueBySlug(req[p].slug), req[p].password, now)
    IN  IF gate = Pass THEN NoResult ELSE gate

GetBySlugFind(p) ==
    /\ At(p, "getBySlug", "find")
    /\ req' = [req EXCEPT ![p] =
                 IF GetBySlugFindResponse(p) = NoResult
                 THEN [@ EXCEPT !.pc = "log", !.secret = FindUniqueBySlug(req[p].slug)]
                 ELSE Idle]
    /\ UNCHANGED <<users, now, secrets, nextId, accessLogs, limiter, disclosed, seen>>

\* prisma.accessLog.create; a secret that is not one-time is returned right after.
\* The insert of a row whose secretId is gone violates access_logs_secretId_fkey.
GetBySlugLogResponse(p) ==
    IF req[p].secret.id \notin DOMAIN secrets THEN InternalError
    ELSE IF req[p].secret.isOneTimeAccess THEN NoResult
    ELSE GetBySlugResult(req[p].secret)

\* getBySlug without the insert into access_logs
GetBySlugLogUnlogged(p) ==
    /\ At(p, "getBySlug", "log")
    /\ LET secret == req[p].secret
           response == GetBySlugLogResponse(p)
       IN  /\ accessLogs' = accessLogs
           /\ req' = [req EXCEPT ![p] =
                        IF response = NoResult THEN [@ EXCEPT !.pc = "mark"] ELSE Idle]
           /\ disclosed' = IF response.code = "OK"
                           THEN [disclosed EXCEPT ![secret.id] = @ + 1]
                           ELSE disclosed
    /\ UNCHANGED <<users, now, secrets, nextId, limiter, seen>>

GetBySlugLog(p) ==
    /\ At(p, "getBySlug", "log")
    /\ LET secret == req[p].secret
           response == GetBySlugLogResponse(p)
       IN  /\ accessLogs' = IF response = InternalError THEN accessLogs
                            ELSE Append(accessLogs,
                                   [secretId |-> secret.id, ipAddress |-> req[p].client])
           /\ req' = [req EXCEPT ![p] =
                        IF response = NoResult THEN [@ EXCEPT !.pc = "mark"] ELSE Idle]
           /\ disclosed' = IF response.code = "OK"
                           THEN [disclosed EXCEPT ![secret.id] = @ + 1]
                           ELSE disclosed
    /\ UNCHANGED <<users, now, secrets, nextId, limiter, seen>>

\* prisma.accessLog.create rejects (the store fails the write): the handler has
\* no try/catch around it, the exception ends the request
GetBySlugLogFailsResponse(p) == InternalError

GetBySlugLogFails(p) ==
    /\ At(p, "getBySlug", "log")
    /\ req' = [req EXCEPT ![p] = Idle]
    /\ UNCHANGED <<users, now, secrets, nextId, accessLogs, limiter, disclosed, seen>>

\* the last step of getBySlug without the update of hasBeenAccessed
GetBySlugMarkUnmarked(p) ==
    /\ At(p, "getBySlug", "mark")
    /\ disclosed' = IF req[p].secret.id \in DOMAIN secrets
                    THEN [disclosed EXCEPT ![req[p].secret.id] = @ + 1]
                    ELSE disclosed
    /\ req' = [req EXCEPT ![p] = Idle]
    /\ UNCHANGED <<users, now, secrets, nextId, accessLogs, limiter, seen>>

\* prisma.secret.update({ where: { id }, data: { hasBeenAccessed: true } }), return
GetBySlugMarkResponse(p) ==
    IF req[p].secret.id \notin DOMAIN secrets THEN InternalError
    ELSE GetBySlugResult(req[p].secret)

GetBySlugMark(p) ==
    /\ At(p, "getBySlug", "mark")
    /\ LET id == req[p].secret.id
       IN  IF GetBySlugMarkResponse(p) = InternalError
           THEN UNCHANGED <<secrets, disclosed>>
           ELSE /\ secrets' = [secrets EXCEPT ![id].hasBeenAccessed = TRUE]
                /\ disclosed' = [disclosed EXCEPT ![id] = @ + 1]
    /\ req' = [req EXCEPT ![p] = Idle]
    /\ UNCHANGED <<users, now, nextId, accessLogs, limiter, seen>>

\* prisma.secret.update rejects: the access is logged, the flag is not set
GetBySlugMarkFailsResponse(p) == InternalError

GetBySlugMarkFails(p) ==
    /\ At(p, "getBySlug", "mark")
    /\ req' = [req EXCEPT ![p] = Idle]
    /\ UNCHANGED <<users, now, secrets, nextId, accessLogs, limiter, disclosed, seen>>

----------------------------------------------------------------------------
(* secretRouter.checkRequirements *)

\* the gates of checkRequirements without the comparison of expiresAt
CheckRequirementsGateNoExpiry(secret, t) ==
    IF ~Found(secret)
    THEN TRPCError("NOT_FOUND", "Secret not found")
    ELSE IF secret.isOneTimeAccess /\ secret.hasBeenAccessed
    THEN TRPCError("NOT_FOUND", "Secret has already been accessed")
    ELSE Pass

CheckRequirementsGate(secret, t) ==
    IF ~Found(secret)
    THEN TRPCError("NOT_FOUND", "Secret not found")
    ELSE IF secret.expiresAt # NoDate /\ secret.expiresAt < t
    THEN TRPCError("NOT_FOUND", "Secret has expired")
    ELSE IF secret.isOneTimeAccess /\ secret.hasBeenAccessed
    THEN TRPCError("NOT_FOUND", "Secret has already been accessed")
    ELSE Pass

CheckRequirementsResult(secret) ==
    Ok([id |-> secret.id, title |-> secret.title,
        requiresPassword |-> (secret.password # NoHash),
        expiresAt |-> secret.expiresAt, isOneTimeAccess |-> secret.isOneTimeAccess])

\* one read of the store, then the gates: no rate limit, no write
CheckRequirementsResponse(slug) ==
    LET secret == FindUniqueBySlug(slug)
        gate == CheckRequirementsGate(secret, now)
    IN  IF gate = Pass THEN CheckRequirementsResult(secret) ELSE gate

\* checkRequirements in the tier of disclosure: the probe takes a check of the
\* secret-access instance
CheckRequirementsCounted(slug) ==
    /\ CheckRequirementsResponse(slug) # NoResult
    /\ limiter' = [limiter EXCEPT !.secretAccess =
                     RateLimiterCheck(limiter.secretAccess, Client, now).rl]
    /\ UNCHANGED <<users, now, secrets, nextId, accessLogs, req, disclosed, seen>>

CheckRequirements(slug) ==
    /\ CheckRequirementsResponse(slug) # NoResult
    /\ UNCHANGED vars

----------------------------------------------------------------------------
(* secretRouter.create *)

CreateResult(secret) ==
    Ok([id |-> secret.id, slug |-> secret.slug, title |-> secret.title,
        expiresAt |-> secret.expiresAt, isOneTimeAccess |-> secret.isOneTimeAccess])

\* the row of create with hasBeenAccessed: true
NewSecretAccessed(id, slug, title, content, password, expiresAt, isOneTimeAccess, user) ==
    [id |-> id, title |-> title, content |-> content, slug |-> slug,
     password |-> IF Truthy(password) THEN BcryptHash(password) ELSE NoHash,
     expiresAt |-> expiresAt, isOneTimeAccess |-> isOneTimeAccess,
     hasBeenAccessed |-> TRUE, userId |-> user]

\* the row prisma.secret.create inserts; slug is what nanoid(12) returned
NewSecret(id, slug, title, content, password, expiresAt, isOneTimeAccess, user) ==
    [id |-> id, title |-> title, content |-> content, slug |-> slug,
     password |-> IF Truthy(password) THEN BcryptHash(password) ELSE NoHash,
     expiresAt |-> expiresAt, isOneTimeAccess |-> isOneTimeAccess,
     hasBeenAccessed |-> FALSE, userId |-> user]

\* create without the unique index on slug
CreateResponseNoUnique(slug, title, content, password, expiresAt, isOneTimeAccess, user, client) ==
    IF ~RateLimiterCheck(limiter.secretCreate, client, now).allowed
    THEN TRPCError("TOO_MANY_REQUESTS",
                   "Too many secrets created. Please try again later.")
    ELSE CreateResult(NewSecret(nextId, slug, title, content, password, expiresAt,
                                isOneTimeAccess, user))

\* The rate limit of secret creation, then one insert (bcrypt.hash reads nothing
\* shared).  An insert whose slug is stored already violates secrets_slug_key.
CreateResponse(slug, title, content, password, expiresAt, isOneTimeAccess, user, client) ==
    IF ~RateLimiterCheck(limiter.secretCreate, client, now).allowed
    THEN TRPCError("TOO_MANY_REQUESTS",
                   "Too many secrets created. Please try again later.")
    ELSE IF Found(FindUniqueBySlug(slug))
    THEN InternalError
    ELSE CreateResult(NewSecret(nextId, slug, title, content, password, expiresAt,
                                isOneTimeAccess, user))

\* create with the insert not held back by the rate limit
CreateUnlimited(slug, title, content, password, expiresAt, isOneTimeAccess, user, client) ==
    /\ nextId <= MaxSecrets
    /\ limiter' = [limiter EXCEPT !.secretCreate =
                     RateLimiterCheck(limiter.secretCreate, client, now).rl]
    /\ IF ~Found(FindUniqueBySlug(slug))
       THEN /\ secrets' = [k \in DOMAIN secrets \cup {nextId} |->
                             IF k = nextId
                             THEN NewSecret(nextId, slug, title, content, password,
                                            expiresAt, isOneTimeAccess, user)
                             ELSE secrets[k]]
            /\ nextId' = nextId + 1
       ELSE UNCHANGED <<secrets, nextId>>
    /\ UNCHANGED <<users, now, accessLogs, req, disclosed, seen>>

Create(slug, title, content, password, expiresAt, isOneTimeAccess, user, client) ==
    /\ nextId <= MaxSecrets
    /\ limiter' = [limiter EXCEPT !.secretCreate =
                     RateLimiterCheck(limiter.secretCreate, client, now).rl]
    /\ IF CreateResponse(slug, title, content, password, expiresAt,
                         isOneTimeAccess, user, client).code = "OK"
       THEN /\ secrets' = [k \in DOMAIN secrets \cup {nextId} |->
                             IF k = nextId
                             THEN NewSecret(nextId, slug, title, content, password,
                                            expiresAt, isOneTimeAccess, user)
                             ELSE secrets[k]]
            /\ nextId' = nextId + 1
       ELSE UNCHANGED <<secrets, nextId>>
    /\ UNCHANGED <<users, now, accessLogs, req, disclosed, seen>>

----------------------------------------------------------------------------
(* protectedProcedure, secretRouter.update, secretRouter.delete *)

NotAuthenticated == TRPCError("UNAUTHORIZED", "Not authenticated")

\* the checks of update and delete without the comparison of userId
OwnerGateAnyUser(secret, user, message) ==
    IF ~Found(secret)
    THEN TRPCError("NOT_FOUND", "Secret not found")
    ELSE Pass

\* the owner gate that lets every user write a secret without an owner
OwnerGateAnonymousOpen(secret, user, message) ==
    IF ~Found(secret)
    THEN TRPCError("NOT_FOUND", "Secret not found")
    ELSE IF secret.userId # Null /\ secret.userId # user
    THEN TRPCError("FORBIDDEN", message)
    ELSE Pass

\* the checks of update and delete between findUnique and the write
OwnerGate(secret, user, message) ==
    IF ~Found(secret)
    THEN TRPCError("NOT_FOUND", "Secret not found")
    ELSE IF secret.userId # user
    THEN TRPCError("FORBIDDEN", message)
    ELSE Pass

UpdateStartResponse(id, user) ==
    LET gate == IF user = Null THEN NotAuthenticated
                ELSE OwnerGate(FindUniqueById(id), user,
                               "Not authorized to update this secret")
    IN  IF gate = Pass THEN NoResult ELSE gate

UpdateStart(p, id, title, expiresAt, user) ==
    /\ req[p].pc = "idle"
    /\ req' = IF UpdateStartResponse(id, user) = NoResult
              THEN [req EXCEPT ![p] =
                      [Idle EXCEPT !.op = "update", !.pc = "write", !.id = id,
                                   !.title = title, !.expiresAt = expiresAt,
                                   !.user = user, !.secret = FindUniqueById(id)]]
              ELSE req
    /\ UNCHANGED <<users, now, secrets, nextId, accessLogs, limiter, disclosed, seen>>

\* the data of update with hasBeenAccessed: false added
UpdatedSecretUnmarked(secret, title, expiresAt) ==
    [secret EXCEPT !.title = IF title = Null THEN @ ELSE title,
                   !.expiresAt = IF expiresAt = NoDate THEN @ ELSE expiresAt,
                   !.hasBeenAccessed = FALSE]

\* data: { title, expiresAt }: an undefined field is left as it is stored
UpdatedSecret(secret, title, expiresAt) ==
    [secret EXCEPT !.title = IF title = Null THEN @ ELSE title,
                   !.expiresAt = IF expiresAt = NoDate THEN @ ELSE expiresAt]

UpdateResult(secret) ==
    Ok([id |-> secret.id, title |-> secret.title, expiresAt |-> secret.expiresAt])

\* prisma.secret.update({ where: { id }, data }): throws when the row is gone
UpdateWriteResponse(p) ==
    IF req[p].id \notin DOMAIN secrets THEN InternalError
    ELSE UpdateResult(UpdatedSecret(secrets[req[p].id], req[p].title, req[p].expiresAt))

UpdateWrite(p) ==
    /\ At(p, "update", "write")
    /\ secrets' = IF UpdateWriteResponse(p) = InternalError THEN secrets
                  ELSE [secrets EXCEPT ![req[p].id] =
                          UpdatedSecret(@, req[p].title, req[p].expiresAt)]
    /\ req' = [req EXCEPT ![p] = Idle]
    /\ UNCHANGED <<users, now, nextId, accessLogs, limiter, disclosed, seen>>

DeleteStartResponse(id, user) ==
    LET gate == IF user = Null THEN NotAuthenticated
                ELSE OwnerGate(FindUniqueById(id), user,
                               "Not authorized to delete this secret")
    IN  IF gate = Pass THEN NoResult ELSE gate

DeleteStart(p, id, user) ==
    /\ req[p].pc = "idle"
    /\ req' = IF DeleteStartResponse(id, user) = NoResult
              THEN [req EXCEPT ![p] =
                      [Idle EXCEPT !.op = "delete", !.pc = "write", !.id = id,
                                   !.user = user, !.secret = FindUniqueById(id)]]
              ELSE req
    /\ UNCHANGED <<users, now, secrets, nextId, accessLogs, limiter, disclosed, seen>>

\* prisma.secret.delete({ where: { id } }): throws when the row is gone
DeleteWriteResponse(p) ==
    IF req[p].id \notin DOMAIN secrets THEN InternalError
    ELSE Ok([success |-> TRUE])

\* delete without the cascade to access_logs
DeleteWriteNoCascade(p) ==
    /\ At(p, "delete", "write")
    /\ IF DeleteWriteResponse(p) = InternalError
       THEN UNCHANGED <<secrets, accessLogs>>
       ELSE /\ secrets' = WithoutSecret(req[p].id)
            /\ accessLogs' = accessLogs
    /\ req' = [req EXCEPT ![p] = Idle]
    /\ UNCHANGED <<users, now, nextId, limiter, disclosed, seen>>

DeleteWrite(p) ==
    /\ At(p, "delete", "write")
    /\ IF DeleteWriteResponse(p) = InternalError
       THEN UNCHANGED <<secrets, accessLogs>>
       ELSE /\ secrets' = WithoutSecret(req[p].id)
            /\ accessLogs' = WithoutLogsOf(req[p].id)
    /\ req' = [req EXCEPT ![p] = Idle]
    /\ UNCHANGED <<users, now, nextId, limiter, disclosed, seen>>

----------------------------------------------------------------------------
(* secretRouter.getUserSecrets *)

\* where: { userId: ctx.user.id }, orderBy: { createdAt: 'desc' }: the ids
\* are in creation order
OwnedIds(user) == {id \in DOMAIN secrets : secrets[id].userId = user}

RECURSIVE Descending(_)
Descending(ids) ==
    IF ids = {} THEN <<>>
    ELSE LET top == CHOOSE i \in ids : \A j \in ids : j <= i
         IN  <<top>> \o Descending(ids \ {top})

\* _count: { select: { accessLogs: true } }
AccessCount(id) == Len(SelectSeq(accessLogs, LAMBDA e : e.secretId = id))

\* a row of the list with the password hash next to hasPassword
ListRowWithHash(secret) ==
    [id |-> secret.id, title |-> secret.title, slug |-> secret.slug,
     expiresAt |-> secret.expiresAt, isOneTimeAccess |-> secret.isOneTimeAccess,
     hasBeenAccessed |-> secret.hasBeenAccessed,
     accessCount |-> AccessCount(secret.id),
     hasPassword |-> (secret.password # NoHash),
     password |-> secret.password]

\* a row of the list (createdAt is not in the rows of the model)
ListRow(secret) ==
    [id |-> secret.id, title |-> secret.title, slug |-> secret.slug,
     expiresAt |-> secret.expiresAt, isOneTimeAccess |-> secret.isOneTimeAccess,
     hasBeenAccessed |-> secret.hasBeenAccessed,
     accessCount |-> AccessCount(secret.id),
     hasPassword |-> (secret.password # NoHash)]

\* findMany with skip and take, and count, both read in one step
GetUserSecretsResponse(user, page, limit) ==
    IF user = Null THEN NotAuthenticated
    ELSE LET all == Descending(OwnedIds(user))
             total == Len(all)
             skip == (page - 1) * limit
             last == IF skip + limit < total THEN skip + limit ELSE total
             taken == SubSeq(all, skip + 1, last)
         IN  Ok([secrets |-> [i \in DOMAIN taken |-> ListRow(secrets[taken[i]])],
                 total |-> total,
                 pages |-> (total + limit - 1) \div limit])

GetUserSecrets(user, page, limit) ==
    /\ GetUserSecretsResponse(user, page, limit) # NoResult
    /\ UNCHANGED vars

----------------------------------------------------------------------------
(* authRouter: register, login, me *)

\* the ids cuid() gives to the rows of "users", in insertion order
UserIdSeq == <<"u1", "u2", "u3", "u4">>

\* the accounts of the users whose tokens the requests carry
Accounts ==
    <<[id |-> "u1", email |-> "a@x.io", name |-> "A", password |-> BcryptHash("secret1")],
      [id |-> "u2", email |-> "b@x.io", name |-> "B", password |-> BcryptHash("secret2")]>>

NoUser == [id |-> Null, email |-> Null, name |-> Null, password |-> NoHash]

FindUserByEmail(email) ==
    IF \E i \in DOMAIN users : users[i].email = email
    THEN users[CHOOSE i \in DOMAIN users : users[i].email = email]
    ELSE NoUser

FindUserById(id) ==
    IF \E i \in DOMAIN users : users[i].id = id
    THEN users[CHOOSE i \in DOMAIN users : users[i].id = id]
    ELSE NoUser

\* jsonwebtoken: a token is its payload, its expiry and the key that signed
\* it; "7d" is in minutes
JwtSecret == "JWT_SECRET"
JwtExpiresIn == 10080

\* no Authorization header and no auth-token cookie; a string that is no JWT
NoToken == [form |-> "none", key |-> Null, userId |-> Null, email |-> Null, exp |-> NoDate]
MalformedToken ==
    [form |-> "garbage", key |-> Null, userId |-> Null, email |-> Null, exp |-> NoDate]

\* jwt.sign({ userId, email }, key, { expiresIn: "7d" }) at time t
JwtSign(userId, email, key, t) ==
    [form |-> "jwt", key |-> key, userId |-> userId, email |-> email,
     exp |-> t + JwtExpiresIn]

\* jwt.verify(token, key) at time t returns the payload; it throws for a string
\* that is no JWT, a signature of another key and a token whose exp is reached
JwtVerifyThrows(token, key, t) ==
    \/ token.form # "jwt"
    \/ token.key # key
    \/ t >= token.exp

\* createTRPCContext with jwt.decode in the place of jwt.verify
CreateTRPCContextUnverified(token, t) ==
    IF token.form = "none" THEN Null
    ELSE IF token.form # "jwt" THEN Null
    ELSE token.userId

\* createTRPCContext: ctx.user.id, or null
CreateTRPCContext(token, t) ==
    IF token.form = "none" THEN Null
    ELSE IF JwtVerifyThrows(token, JwtSecret, t) THEN Null
    ELSE token.userId

AuthResult(user) ==
    Ok([user |-> [id |-> user.id, name |-> user.name, email |-> user.email],
        token |-> JwtSign(user.id, user.email, JwtSecret, now)])

\* register up to its first await: the rate limit of authentication
RegisterStartResponse(client) ==
    IF ~RateLimiterCheck(limiter.auth, client, now).allowed
    THEN TRPCError("TOO_MANY_REQUESTS",
                   "Too many registration attempts. Please try again later.")
    ELSE NoResult

RegisterStart(p, name, email, password, client) ==
    /\ req[p].pc = "idle"
    /\ limiter' = [limiter EXCEPT !.auth = RateLimiterCheck(limiter.auth, client, now).rl]
    /\ req' = IF RegisterStartResponse(client) = NoResult
              THEN [req EXCEPT ![p] =
                      [Idle EXCEPT !.op = "register", !.pc = "find", !.name = name,
                                   !.email = email, !.password = password,
                                   !.client = client]]
              ELSE req
    /\ UNCHANGED <<now, users, secrets, nextId, accessLogs, disclosed, seen>>

\* prisma.user.findUnique({ where: { email } }); bcrypt.hash is awaited next
RegisterFindResponse(p) ==
    IF FindUserByEmail(req[p].email) # NoUser
    THEN TRPCError("CONFLICT", "User with this email already exists")
    ELSE NoResult

RegisterFind(p) ==
    /\ At(p, "register", "find")
    /\ req' = [req EXCEPT ![p] =
                 IF RegisterFindResponse(p) = NoResult THEN [@ EXCEPT !.pc = "create"]
                 ELSE Idle]
    /\ UNCHANGED <<now, users, secrets, nextId, accessLogs, limiter, disclosed, seen>>

NewUser(id, name, email, password) ==
    [id |-> id, email |-> email, name |-> name, password |-> BcryptHash(password)]

\* prisma.user.create: an insert whose email is stored violates users_email_key
RegisterCreateResponse(p) ==
    IF FindUserByEmail(req[p].email) # NoUser THEN InternalError
    ELSE AuthResult(NewUser(UserIdSeq[Len(users) + 1], req[p].name, req[p].email,
                            req[p].password))

RegisterCreate(p) ==
    /\ At(p, "register", "create")
    /\ users' = IF RegisterCreateResponse(p) = InternalError THEN users
                ELSE Append(users, NewUser(UserIdSeq[Len(users) + 1], req[p].name,
                                           req[p].email, req[p].password))
    /\ req' = [req EXCEPT ![p] = Idle]
    /\ UNCHANGED <<now, secrets, nextId, accessLogs, limiter, disclosed, seen>>

\* login up to its first await: the rate limit of authentication
LoginStartResponse(client) ==
    IF ~RateLimiterCheck(limiter.auth, client, now).allowed
    THEN TRPCError("TOO_MANY_REQUESTS",
                   "Too many login attempts. Please try again later.")
    ELSE NoResult

\* login checked against the secret-access instance, not the one of register
LoginStartOwnClass(p, email, password, client) ==
    /\ req[p].pc = "idle"
    /\ limiter' = [limiter EXCEPT !.secretAccess =
                     RateLimiterCheck(limiter.secretAccess, client, now).rl]
    /\ req' = IF RateLimiterCheck(limiter.secretAccess, client, now).allowed
              THEN [req EXCEPT ![p] =
                      [Idle EXCEPT !.op = "login", !.pc = "find", !.email = email,
                                   !.password = password, !.client = client]]
              ELSE req
    /\ UNCHANGED <<now, users, secrets, nextId, accessLogs, disclosed, seen>>

LoginStart(p, email, password, client) ==
    /\ req[p].pc = "idle"
    /\ limiter' = [limiter EXCEPT !.auth = RateLimiterCheck(limiter.auth, client, now).rl]
    /\ req' = IF LoginStartResponse(client) = NoResult
              THEN [req EXCEPT ![p] =
                      [Idle EXCEPT !.op = "login", !.pc = "find", !.email = email,
                                   !.password = password, !.client = client]]
              ELSE req
    /\ UNCHANGED <<now, users, secrets, nextId, accessLogs, disclosed, seen>>

\* login with a message of its own for an email that has no account
LoginFindResponseTelling(p) ==
    LET user == FindUserByEmail(req[p].email)
    IN  IF user = NoUser
        THEN TRPCError("UNAUTHORIZED", "User not found")
        ELSE IF ~BcryptCompare(req[p].password, user.password)
        THEN TRPCError("UNAUTHORIZED", "Invalid credentials")
        ELSE AuthResult(user)

\* prisma.user.findUnique({ where: { email } }), bcrypt.compare, jwt.sign
LoginFindResponse(p) ==
    LET user == FindUserByEmail(req[p].email)
    IN  IF user = NoUser
        THEN TRPCError("UNAUTHORIZED", "Invalid credentials")
        ELSE IF ~BcryptCompare(req[p].password, user.password)
        THEN TRPCError("UNAUTHORIZED", "Invalid credentials")
        ELSE AuthResult(user)

LoginFind(p) ==
    /\ At(p, "login", "find")
    /\ req' = [req EXCEPT ![p] = Idle]
    /\ UNCHANGED <<now, users, secrets, nextId, accessLogs, limiter, disclosed, seen>>

\* me: protectedProcedure, one read
MeResponse(user) ==
    IF user = Null THEN NotAuthenticated
    ELSE IF FindUserById(user) = NoUser
    THEN TRPCError("NOT_FOUND", "User not found")
    ELSE Ok([id |-> FindUserById(user).id, name |-> FindUserById(user).name,
             email |-> FindUserById(user).email])

Me(user) ==
    /\ MeResponse(user) # NoResult
    /\ UNCHANGED vars

----------------------------------------------------------------------------
(* The environment *)

Tick(limit) ==
    /\ now < limit
    /\ now' = now + 1
    /\ UNCHANGED <<users, secrets, nextId, accessLogs, limiter, req, disclosed, seen>>

\* setInterval(() => this.cleanup(), 5 * 60 * 1000) of the secret-access instance
Cleanup ==
    /\ limiter' = [limiter EXCEPT !.secretAccess = RateLimiterCleanup(@, now)]
    /\ UNCHANGED <<users, now, secrets, nextId, accessLogs, req, disclosed, seen>>

----------------------------------------------------------------------------
(* The specifications *)

NoSecrets == [k \in {} |-> NoSecret]
NoneSeen == [k \in {} |-> NoWindow]

InitWith(limiters) ==
    /\ now = 0
    /\ users = Accounts
    /\ secrets = NoSecrets
    /\ nextId = 1
    /\ accessLogs = <<>>
    /\ limiter = limiters
    /\ req = [p \in Procs |-> Idle]
    /\ disclosed = [id \in 1 .. MaxSecrets |-> 0]
    /\ seen = NoneSeen

Init == InitWith(Limiters)

\* the slots are alike: a request takes r1 when r1 is free
Free(p) == req[p].pc = "idle" /\ (p = "r2" => req["r1"].pc # "idle")

\* the checks an identifier has made so far in the window of an instance
Count(rl, identifier) ==
    IF identifier \in DOMAIN rl.store THEN rl.store[identifier].count ELSE 0

\* nanoid(12) returns a stored slug or a fresh one; the fresh ones are alike
FreshOrStored(slug) ==
    \/ Found(FindUniqueBySlug(slug))
    \/ \E i \in DOMAIN SlugSeq :
          /\ SlugSeq[i] = slug
          /\ \A j \in 1 .. i - 1 : Found(FindUniqueBySlug(SlugSeq[j]))

\* requests of one client, MaxCalls of them to a rate-limited procedure
IssueGetBySlug(procs, passwords) ==
    \E p \in procs, slug \in Slugs, password \in passwords :
        /\ Free(p)
        /\ Count(limiter.secretAccess, Client) < MaxCalls
        /\ GetBySlugStart(p, slug, password, Client)

IssueCreate(passwords, dates, flags, owners) ==
    \E slug \in Slugs, content \in Contents, password \in passwords,
       expiresAt \in dates, isOneTimeAccess \in flags, user \in owners :
        /\ FreshOrStored(slug)
        /\ Count(limiter.secretCreate, Client) < MaxCalls
        /\ Create(slug, "t", content, password, expiresAt, isOneTimeAccess,
                  user, Client)

\* an update sets a new title and a new expiry, or neither
IssueUpdate(procs, dates) ==
    \E p \in procs, id \in 1 .. MaxSecrets, expiresAt \in dates,
       user \in Users \cup {Null} :
        /\ Free(p)
        /\ UpdateStart(p, id, IF expiresAt = NoDate THEN Null ELSE "t2",
                       expiresAt, user)

IssueDelete(procs) ==
    \E p \in procs, id \in 1 .. MaxSecrets, user \in Users \cup {Null} :
        Free(p) /\ DeleteStart(p, id, user)

One == {"r1"}

\* getUserSecrets: the first two pages, of one row or of ten (the default)
Pages == {1, 2}
PageLimits == {1, 10}

\* Spec: create, getBySlug, checkRequirements, update and delete, one request
\* after the other, at one instant: secrets without expiry, the owner's with
\* and without password, one-time or not, and anonymous ones
Next ==
    \/ IssueCreate({Null, "p"}, {NoDate}, BOOLEAN, {Owner})
    \/ IssueCreate({Null}, {NoDate}, {FALSE}, {Null})
    \/ IssueGetBySlug(One, {Null, "p", "q"})
    \/ GetBySlugFind("r1")
    \/ GetBySlugLog("r1")
    \/ GetBySlugLogFails("r1")
    \/ GetBySlugMark("r1")
    \/ GetBySlugMarkFails("r1")
    \/ \E slug \in Slugs : CheckRequirements(slug)
    \/ IssueUpdate(One, {NoDate, MaxTime + 1})
    \/ UpdateWrite("r1")
    \/ IssueDelete(One)
    \/ DeleteWrite("r1")

Spec == Init /\ [][Next]_vars

\* SpecExpiry: secrets of one owner with and without expiry, one-time or not,
\* one request after the other, while the clock advances
NextExpiry ==
    \/ IssueCreate({Null}, {NoDate, 0}, BOOLEAN, {Owner})
    \/ IssueGetBySlug(One, {Null})
    \/ GetBySlugFind("r1")
    \/ GetBySlugLog("r1")
    \/ GetBySlugMark("r1")
    \/ \E slug \in Slugs : CheckRequirements(slug)
    \/ IssueUpdate(One, {NoDate, MaxTime + 1})
    \/ UpdateWrite("r1")
    \/ Tick(MaxTime)

SpecExpiry == Init /\ [][NextExpiry]_vars

\* SpecRace: one-time secrets of one owner, two requests at a time
NextRace ==
    \/ IssueCreate({Null}, {NoDate}, {TRUE}, {Owner})
    \/ IssueGetBySlug(Procs, {Null})
    \/ \E p \in Procs : GetBySlugFind(p)
    \/ \E p \in Procs : GetBySlugLog(p)
    \/ \E p \in Procs : GetBySlugLogFails(p)
    \/ \E p \in Procs : GetBySlugMark(p)
    \/ \E p \in Procs : GetBySlugMarkFails(p)
    \/ \E slug \in Slugs : CheckRequirements(slug)
    \/ IssueUpdate(Procs, {NoDate})
    \/ \E p \in Procs : UpdateWrite(p)
    \/ IssueDelete(Procs)
    \/ \E p \in Procs : DeleteWrite(p)

SpecRace == Init /\ [][NextRace]_vars

\* SpecDelete: secrets of one owner, one-time or not, two requests at a time:
\* getBySlug and delete of the same secret interleave
NextDelete ==
    \/ IssueCreate({Null}, {NoDate}, BOOLEAN, {Owner})
    \/ IssueGetBySlug(Procs, {Null})
    \/ \E p \in Procs : GetBySlugFind(p)
    \/ \E p \in Procs : GetBySlugLog(p)
    \/ \E p \in Procs : GetBySlugMark(p)
    \/ \E slug \in Slugs : CheckRequirements(slug)
    \/ \E p \in Procs, id \in 1 .. MaxSecrets, user \in {Owner, "u2"} :
          Free(p) /\ DeleteStart(p, id, user)
    \/ \E p \in Procs : DeleteWrite(p)

SpecDelete == Init /\ [][NextDelete]_vars

\* SpecScenario: secrets with a password, one-time or not, under getBySlug
\* with no, the right and a wrong password, one request after the other, one
\* call more than in Spec
NextScenario ==
    \/ IssueCreate({"p"}, {NoDate}, BOOLEAN, {Owner})
    \/ \E slug \in Slugs, password \in {Null, "p", "q"} :
          /\ Free("r1")
          /\ Count(limiter.secretAccess, Client) < MaxCalls + 1
          /\ GetBySlugStart("r1", slug, password, Client)
    \/ GetBySlugFind("r1")
    \/ GetBySlugLog("r1")
    \/ GetBySlugLogFails("r1")
    \/ GetBySlugMark("r1")
    \/ GetBySlugMarkFails("r1")
    \/ \E slug \in Slugs : CheckRequirements(slug)

SpecScenario == Init /\ [][NextScenario]_vars

\* SpecList: what the procedures give back: the secrets of one owner, with a
\* password or without, created, disclosed, listed page by page, updated and
\* deleted, one request after the other
NextList ==
    \/ IssueCreate({Null, "p"}, {NoDate}, BOOLEAN, {Owner})
    \/ IssueGetBySlug(One, {Null, "p"})
    \/ GetBySlugFind("r1")
    \/ GetBySlugLog("r1")
    \/ GetBySlugMark("r1")
    \/ \E slug \in Slugs : CheckRequirements(slug)
    \/ \E user \in Users, page \in Pages, limit \in PageLimits :
          GetUserSecrets(user, page, limit)
    \/ IssueUpdate(One, {NoDate, MaxTime + 1})
    \/ UpdateWrite("r1")
    \/ IssueDelete(One)
    \/ DeleteWrite("r1")

SpecList == Init /\ [][NextList]_vars

\* SpecRoundTrip: secrets of one owner created with one of two contents, no
\* password, no expiry, not one-time; getBySlug, update (which can set an
\* expiry) and delete, one request after the other, while the clock advances
RoundTripContents == {"X", "Y"}

NextRoundTrip ==
    \/ \E slug \in Slugs, content \in RoundTripContents :
          /\ FreshOrStored(slug)
          /\ Count(limiter.secretCreate, Client) < MaxCalls
          /\ Create(slug, "t", content, Null, NoDate, FALSE, Owner, Client)
    \/ IssueGetBySlug(One, {Null})
    \/ GetBySlugFind("r1")
    \/ GetBySlugLog("r1")
    \/ GetBySlugLogFails("r1")
    \/ IssueUpdate(One, {NoDate, 0})
    \/ UpdateWrite("r1")
    \/ IssueDelete(One)
    \/ DeleteWrite("r1")
    \/ Tick(MaxTime)

SpecRoundTrip == Init /\ [][NextRoundTrip]_vars

\* SpecClasses: the rate-limited procedures called by two clients at one
\* instant, one request after the other: create (of slug s1: stored once, a
\* collision afterwards), getBySlug (of s2: not stored), register and login
\* (and me, which has no limit)
NextClasses ==
    \/ \E client \in RLClients :
          /\ Count(limiter.secretCreate, client) < MaxCalls
          /\ Create("s1", "t", "X", Null, NoDate, FALSE, Null, client)
    \/ \E client \in RLClients :
          /\ Free("r1")
          /\ Count(limiter.secretAccess, client) < MaxCalls
          /\ GetBySlugStart("r1", "s2", Null, client)
    \/ GetBySlugFind("r1")
    \/ \E client \in RLClients, password \in {"secret1", "wrong00"} :
          Free("r1") /\ LoginStart("r1", "a@x.io", password, client)
    \/ LoginFind("r1")
    \/ \E client \in RLClients :
          Free("r1") /\ RegisterStart("r1", "C", "c@x.io", "secret3", client)
    \/ RegisterFind("r1")
    \/ RegisterCreate("r1")
    \/ \E user \in {Null, Owner} : Me(user)

SpecClasses == Init /\ [][NextClasses]_vars

\* SpecRegister: register and login calls of one client for a stored email and
\* for a new one, two requests at a time
NextRegister ==
    \/ \E p \in Procs, email \in {"a@x.io", "c@x.io"} :
          Free(p) /\ RegisterStart(p, "C", email, "secret3", Client)
    \/ \E p \in Procs : RegisterFind(p)
    \/ \E p \in Procs : RegisterCreate(p)
    \/ \E p \in Procs, email \in {"a@x.io", "c@x.io"},
          password \in {"secret3", "wrong00"} :
          Free(p) /\ LoginStart(p, email, password, Client)
    \/ \E p \in Procs : LoginFind(p)

SpecRegister == Init /\ [][NextRegister]_vars

\* SpecToken: requests that carry no token, a token of the owner that is valid,
\* one that expires at time 1, one signed with another key and a string that
\* is no token, one request after the other, while the clock advances
\* (getBySlug and checkRequirements read nothing of ctx.user)
ExpiringToken == JwtSign(Owner, "a@x.io", JwtSecret, 1 - JwtExpiresIn)
ForgedToken == JwtSign(Owner, "a@x.io", "another key", 0)
Tokens ==
    {NoToken, MalformedToken, ForgedToken, ExpiringToken,
     JwtSign(Owner, "a@x.io", JwtSecret, 0)}

NextToken ==
    \/ \E token \in Tokens, slug \in Slugs :
          /\ FreshOrStored(slug)
          /\ Count(limiter.secretCreate, Client) < MaxCalls
          /\ Create(slug, "t", "X", Null, NoDate, FALSE,
                    CreateTRPCContext(token, now), Client)
    \/ /\ Free("r1")
       /\ Count(limiter.secretAccess, Client) < MaxCalls - 1
       /\ GetBySlugStart("r1", "s1", Null, Client)
    \/ GetBySlugFind("r1")
    \/ GetBySlugLog("r1")
    \/ \E slug \in Slugs : CheckRequirements(slug)
    \/ \E token \in Tokens : GetUserSecrets(CreateTRPCContext(token, now), 1, 10)
    \/ \E token \in Tokens : Me(CreateTRPCContext(token, now))
    \/ \E token \in Tokens, id \in 1 .. MaxSecrets :
          /\ Free("r1")
          /\ UpdateStart("r1", id, "t2", MaxTime + 1, CreateTRPCContext(token, now))
    \/ UpdateWrite("r1")
    \/ \E token \in Tokens, id \in 1 .. MaxSecrets :
          Free("r1") /\ DeleteStart("r1", id, CreateTRPCContext(token, now))
    \/ DeleteWrite("r1")
    \/ Tick(MaxTime)

SpecToken == Init /\ [][NextToken]_vars

\* SpecAuthRL: the authentication limiter as it is, or one of a small window
\* and a small limit; logins (right and wrong password) and registers of two
\* clients in any order, one request after the other, while the clock advances
InitAuthRL ==
    \E setting \in ((1 .. RLMaxWindow) \X (1 .. RLMaxRequests))
                      \cup {<<AuthWindow, AuthMax>>} :
        InitWith([Limiters EXCEPT !.auth = RateLimiter(setting[1], setting[2])])

NextAuthRL ==
    \/ \E client \in RLClients, password \in {"secret1", "wrong00"} :
          Free("r1") /\ LoginStart("r1", "a@x.io", password, client)
    \/ LoginFind("r1")
    \/ \E client \in RLClients :
          Free("r1") /\ RegisterStart("r1", "C", "c@x.io", "secret3", client)
    \/ RegisterFind("r1")
    \/ RegisterCreate("r1")
    \/ Tick(RLMaxTime)

SpecAuthRL == InitAuthRL /\ [][NextAuthRL]_vars

\* SpecCreateRL: a secret-creation limiter of a small window and a small limit,
\* creates of two clients (with slug collisions), while the clock advances
InitCreateRL ==
    \E windowMs \in 1 .. RLMaxWindow, maxRequests \in 1 .. RLMaxRequests :
        InitWith([Limiters EXCEPT !.secretCreate = RateLimiter(windowMs, maxRequests)])

NextCreateRL ==
    \/ \E client \in RLClients, slug \in Slugs :
          /\ FreshOrStored(slug)
          /\ Create(slug, "t", "X", Null, NoDate, FALSE, Null, client)
    \/ Tick(RLMaxTime)

SpecCreateRL == InitCreateRL /\ [][NextCreateRL]_vars

\* SpecPassword: secrets created without a password, with the empty string
\* and with a password; getBySlug without a password, with the empty string,
\* with the right and with a wrong password
NextPassword ==
    \/ IssueCreate({Null, "", "p"}, {NoDate}, {FALSE}, {Owner})
    \/ IssueGetBySlug(One, {Null, "", "p", "q"})
    \/ GetBySlugFind("r1")
    \/ GetBySlugLog("r1")

SpecPassword == Init /\ [][NextPassword]_vars

\* SpecGates: secrets with and without password, with and without an expiry
\* at the instant of their creation, one-time or not; getBySlug without a
\* password, with the right and with a wrong one; the clock
NextGates ==
    \/ IssueCreate({Null, "p"}, {NoDate, 0}, BOOLEAN, {Owner})
    \/ IssueGetBySlug(One, {Null, "p", "q"})
    \/ GetBySlugFind("r1")
    \/ GetBySlugLog("r1")
    \/ GetBySlugMark("r1")
    \/ Tick(MaxTime)

SpecGates == Init /\ [][NextGates]_vars

\* SpecRL: a secret-access limiter of a small window and a small limit, two
\* clients, two requests at a time for a slug that is not stored, the timer
\* of cleanup
InitRL ==
    \E windowMs \in 1 .. RLMaxWindow, maxRequests \in 1 .. RLMaxRequests :
        InitWith([Limiters EXCEPT !.secretAccess = RateLimiter(windowMs, maxRequests)])

\* the rejected checks of an identifier in its running window
Rejected(identifier) ==
    IF identifier \in DOMAIN seen /\ ~(now > seen[identifier].end)
    THEN seen[identifier].n - seen[identifier].ok
    ELSE 0

\* SpecQuota: the secret-access instance as it is built (20 checks in 5
\* minutes), one client, the clock running while the client is locked out, up
\* to the minute after its first window:
\* a protected secret of slug s1 (stored once, a collision afterwards),
\* getBySlug of s1 and of s2, which is not stored, with the right and a wrong
\* password, as many as the limiter admits and RLMaxRejects more in a window
NextQuota ==
    \/ /\ Count(limiter.secretCreate, Client) < MaxCalls
       /\ Create("s1", "t", "X", "p", NoDate, FALSE, Owner, Client)
    \/ \E slug \in Slugs, password \in {"p", "q"} :
          /\ Free("r1")
          /\ Rejected(Client) < RLMaxRejects
          /\ GetBySlugStart("r1", slug, password, Client)
    \/ GetBySlugFind("r1")
    \/ GetBySlugLog("r1")
    \/ /\ Count(limiter.secretAccess, Client) >= limiter.secretAccess.maxRequests
       /\ Tick(QuotaMaxTime)

SpecQuota == Init /\ [][NextQuota]_vars

NextRL ==
    \/ \E p \in Procs, client \in RLClients :
          /\ Free(p)
          /\ Rejected(client) < RLMaxRejects
          /\ GetBySlugStart(p, "s1", Null, client)
    \/ \E p \in Procs : GetBySlugFind(p)
    \/ Tick(RLMaxTime)
    \/ Cleanup

SpecRL == InitRL /\ [][NextRL]_vars

----------------------------------------------------------------------------
(* The claims *)

IsExpired(secret, t) == secret.expiresAt # NoDate /\ secret.expiresAt < t
IsConsumed(secret) == secret.isOneTimeAccess /\ disclosed[secret.id] >= 1
Min(a, b) == IF a < b THEN a ELSE b
FindSteps(slug) == {p \in Procs : At(p, "getBySlug", "find") /\ req[p].slug = slug}

\* C1: the content of a one-time secret is returned by at most one getBySlug,
\* however the requests for it interleave.
C1_AtMostOneDisclosure ==
    \A id \in DOMAIN secrets :
        secrets[id].isOneTimeAccess => disclosed[id] <= 1

\* C2: once getBySlug has returned the content of a one-time secret, every
\* getBySlug that looks the slug up afterwards and every checkRequirements
\* of the slug answers NOT_FOUND, whatever update has done to the row since.
C2_ConsumedIsNotFound ==
    \A slug \in Slugs :
        LET secret == FindUniqueBySlug(slug)
        IN  (Found(secret) /\ IsConsumed(secret)) =>
               /\ CheckRequirementsResponse(slug).code = "NOT_FOUND"
               /\ \A p \in FindSteps(slug) :
                     GetBySlugFindResponse(p).code = "NOT_FOUND"

C2_Witness ==
    \E p \in Procs :
        /\ At(p, "getBySlug", "find")
        /\ Found(FindUniqueBySlug(req[p].slug))
        /\ IsConsumed(FindUniqueBySlug(req[p].slug))
        /\ FindUniqueBySlug(req[p].slug).title = "t2"
        /\ GetBySlugFindResponse(p).code = "NOT_FOUND"

\* C3: for a stored secret with a password hash, getBySlug without a password
\* or with a wrong one answers UNAUTHORIZED and with the right one passes the
\* gate; getBySlug returns content only of a secret without hash or for the
\* password of the hash; checkRequirements reports requiresPassword exactly
\* for the secrets with a hash and returns no password field.
C3_PasswordGate ==
    /\ \A p \in Procs :
          LET secret == FindUniqueBySlug(req[p].slug)
          IN  (/\ At(p, "getBySlug", "find")
               /\ Found(secret) /\ ~IsExpired(secret, now)
               /\ ~(secret.isOneTimeAccess /\ secret.hasBeenAccessed)
               /\ secret.password # NoHash) =>
                 IF req[p].password # Null /\ secret.password = BcryptHash(req[p].password)
                 THEN GetBySlugFindResponse(p) = NoResult
                 ELSE GetBySlugFindResponse(p).code = "UNAUTHORIZED"
    /\ \A p \in Procs :
          LET response == IF At(p, "getBySlug", "log") THEN GetBySlugLogResponse(p)
                          ELSE IF At(p, "getBySlug", "mark") THEN GetBySlugMarkResponse(p)
                          ELSE NoResult
          IN  response.code = "OK" =>
                 /\ response.data.content = req[p].secret.content
                 /\ \/ req[p].secret.password = NoHash
                    \/ req[p].secret.password = BcryptHash(req[p].password)
    /\ \A slug \in Slugs :
          LET response == CheckRequirementsResponse(slug)
          IN  response.code = "OK" =>
                 /\ response.data.requiresPassword =
                       (FindUniqueBySlug(slug).password # NoHash)
                 /\ "password" \notin DOMAIN response.data
                 /\ "content" \notin DOMAIN response.data

C3_Witness ==
    \E id \in DOMAIN secrets :
        /\ secrets[id].password = BcryptHash("p")
        /\ disclosed[id] >= 1
        /\ \E p \in Procs :
              /\ At(p, "getBySlug", "find")
              /\ req[p].slug = secrets[id].slug
              /\ req[p].password = "q"
              /\ GetBySlugFindResponse(p).code = "UNAUTHORIZED"

C5_WindowCounts ==
    \A c \in DOMAIN seen :
        LET rl == limiter.secretAccess
        IN  /\ seen[c].ok = Min(seen[c].n, rl.maxRequests)
            /\ c \in DOMAIN rl.store =>
                  /\ rl.store[c].count = seen[c].ok
                  /\ rl.store[c].resetTime = seen[c].end

C5_Witness ==
    \E c \in DOMAIN seen :
        /\ seen[c].k >= 2
        /\ seen[c].n > limiter.secretAccess.maxRequests
        /\ seen[c].ok = limiter.secretAccess.maxRequests
        /\ limiter.secretAccess.maxRequests = RLMaxRequests

\* C6: update and delete by a user who is not the owner answer FORBIDDEN, for
\* an id that is not stored NOT_FOUND, and the owner's pass the gate and
\* succeed on the row that is stored; a row changes or goes only by the write
\* of a request of its owner.
C6_OwnerGateHolds ==
    \A id \in 1 .. MaxSecrets, user \in Users :
        /\ id \notin DOMAIN secrets =>
              /\ UpdateStartResponse(id, user).code = "NOT_FOUND"
              /\ DeleteStartResponse(id, user).code = "NOT_FOUND"
        /\ (id \in DOMAIN secrets /\ secrets[id].userId # user) =>
              /\ UpdateStartResponse(id, user).code = "FORBIDDEN"
              /\ DeleteStartResponse(id, user).code = "FORBIDDEN"
        /\ (id \in DOMAIN secrets /\ secrets[id].userId = user) =>
              /\ UpdateStartResponse(id, user) = NoResult
              /\ DeleteStartResponse(id, user) = NoResult
              /\ \A p \in Procs :
                    /\ (At(p, "update", "write") /\ req[p].id = id) =>
                          UpdateWriteResponse(p).code = "OK"
                    /\ (At(p, "delete", "write") /\ req[p].id = id) =>
                          DeleteWriteResponse(p).code = "OK"

C6_OnlyOwnerWrites ==
    \A id \in DOMAIN secrets :
        (\/ id \notin DOMAIN secrets'
         \/ secrets'[id].title # secrets[id].title
         \/ secrets'[id].expiresAt # secrets[id].expiresAt
         \/ secrets'[id].userId # secrets[id].userId) =>
            \E p \in Procs :
                /\ req[p].op \in {"update", "delete"} /\ req[p].pc = "write"
                /\ req[p].id = id
                /\ req[p].user = secrets[id].userId
                /\ req'[p] = Idle

C6_OwnerOnly == []C6_OwnerGateHolds /\ [][C6_OnlyOwnerWrites]_vars

C6_Witness ==
    \E id \in DOMAIN secrets :
        /\ secrets[id].userId = Owner
        /\ secrets[id].title = "t2"
        /\ UpdateStartResponse(id, "u2").code = "FORBIDDEN"
        /\ DeleteStartResponse(id, "u2").code = "FORBIDDEN"

\* C7: the NOT_FOUND answers of getBySlug and checkRequirements are the same
\* answer, code and message, for a slug that is not stored, an expired secret
\* and a consumed one.
C7_NotFoundAlike ==
    LET answers == {CheckRequirementsResponse(slug) : slug \in Slugs}
                   \cup {GetBySlugFindResponse(p) :
                           p \in {q \in Procs : At(q, "getBySlug", "find")}}
    IN  \A a, b \in answers :
            (a.code = "NOT_FOUND" /\ b.code = "NOT_FOUND") => a = b

\* C8: a secret that is expired stays expired as long as it is stored, whatever
\* its owner does.
C8_ExpiredStaysExpired ==
    [][\A id \in DOMAIN secrets :
          (IsExpired(secrets[id], now) /\ id \in DOMAIN secrets') =>
              IsExpired(secrets'[id], now')]_vars

\* C9: the check and the increment are one step: of the checks of an
\* identifier in one window at most maxRequests are allowed, with requests of
\* several clients in flight.
C9_AtMostMaxAllowed ==
    \A c \in DOMAIN seen : seen[c].ok <= limiter.secretAccess.maxRequests

C9_Witness ==
    \E c \in DOMAIN seen :
        /\ seen[c].n > limiter.secretAccess.maxRequests
        /\ seen[c].ok = limiter.secretAccess.maxRequests
        /\ At("r1", "getBySlug", "find") /\ req["r1"].client = c
        /\ At("r2", "getBySlug", "find")

\* C10: a getBySlug that has passed the gates returns the content also when
\* the write of its access log fails: a request for a secret that is not
\* one-time ends at its log step only by returning the content.
C10_LogFailureIsIgnored ==
    [][\A p \in Procs :
          (/\ At(p, "getBySlug", "log")
           /\ ~req[p].secret.isOneTimeAccess
           /\ req[p].secret.id \in DOMAIN secrets
           /\ req'[p] = Idle) =>
              disclosed'[req[p].secret.id] = disclosed[req[p].secret.id] + 1]_vars

\* C11: for a one-time secret with a password, a getBySlug with a wrong or no
\* password answers UNAUTHORIZED and changes neither the secret nor the access
\* log; one with the right password passes the gate, returns the content and
\* leaves the secret consumed; every getBySlug after that answers NOT_FOUND.
C11_GateOfProtectedOneTime ==
    \A p \in Procs :
        LET secret == FindUniqueBySlug(req[p].slug)
            right == req[p].password # Null
                     /\ secret.password = BcryptHash(req[p].password)
        IN  /\ (/\ At(p, "getBySlug", "find") /\ Found(secret)
                /\ secret.isOneTimeAccess /\ secret.password # NoHash) =>
                   /\ disclosed[secret.id] = 0 =>
                         /\ ~secret.hasBeenAccessed
                         /\ IF right THEN GetBySlugFindResponse(p) = NoResult
                            ELSE GetBySlugFindResponse(p).code = "UNAUTHORIZED"
                   /\ disclosed[secret.id] >= 1 =>
                         GetBySlugFindResponse(p).code = "NOT_FOUND"
            /\ (At(p, "getBySlug", "mark") /\ req[p].secret.id \in DOMAIN secrets) =>
                   /\ GetBySlugMarkResponse(p).code = "OK"
                   /\ GetBySlugMarkResponse(p).data.content = req[p].secret.content

C11_StepsOfProtectedOneTime ==
    \A p \in Procs :
        /\ (/\ At(p, "getBySlug", "find")
            /\ GetBySlugFindResponse(p).code = "UNAUTHORIZED"
            /\ req'[p] = Idle) =>
               secrets' = secrets /\ accessLogs' = accessLogs
        /\ (/\ At(p, "getBySlug", "mark")
            /\ disclosed' # disclosed) =>
               /\ secrets'[req[p].secret.id].hasBeenAccessed
               /\ disclosed'[req[p].secret.id] = 1

C11_ProtectedOneTime ==
    []C11_GateOfProtectedOneTime /\ [][C11_StepsOfProtectedOneTime]_vars

C11_Witness ==
    \E id \in DOMAIN secrets :
        /\ secrets[id].isOneTimeAccess
        /\ secrets[id].password = BcryptHash("p")
        /\ secrets[id].hasBeenAccessed
        /\ disclosed[id] = 1
        /\ Len(accessLogs) = 1
        /\ seen[Client].n = MaxCalls + 1
        /\ At("r1", "getBySlug", "find")
        /\ req["r1"].slug = secrets[id].slug
        /\ req["r1"].password = "p"
        /\ GetBySlugFindResponse("r1").code = "NOT_FOUND"

\* C12: a secret created with content X, no password, no expiry and not
\* one-time is found under the slug create returned, and every getBySlug of
\* that slug passes the gates and returns X as long as the secret is stored.
C12_RoundTripWhileStored ==
    \A p \in Procs :
        (At(p, "getBySlug", "find") /\ Found(FindUniqueBySlug(req[p].slug))) =>
            GetBySlugFindResponse(p) = NoResult

\* C12 as the code has it: every getBySlug of the slug passes the gates and
\* returns X as long as the secret is stored and no expiry given to it by an
\* update has passed; the row holds the content given to create under the
\* slug create returned, and its content never changes.
C12_GatesWhileLive ==
    \A p \in Procs :
        /\ (/\ At(p, "getBySlug", "find")
            /\ Found(FindUniqueBySlug(req[p].slug))
            /\ ~IsExpired(FindUniqueBySlug(req[p].slug), now)) =>
               GetBySlugFindResponse(p) = NoResult
        /\ (At(p, "getBySlug", "log") /\ req[p].secret.id \in DOMAIN secrets) =>
               /\ GetBySlugLogResponse(p).code = "OK"
               /\ GetBySlugLogResponse(p).data.content = secrets[req[p].secret.id].content

C12_ContentKept ==
    /\ \A id \in DOMAIN secrets \cap DOMAIN secrets' :
          /\ secrets'[id].content = secrets[id].content
          /\ secrets'[id].slug = secrets[id].slug
    /\ \A id \in DOMAIN secrets' \ DOMAIN secrets :
          \E slug \in Slugs, content \in RoundTripContents :
              LET response == CreateResponse(slug, "t", content, Null, NoDate,
                                             FALSE, Owner, Client)
              IN  /\ response.code = "OK"
                  /\ response.data.slug = slug
                  /\ secrets'[id].slug = slug
                  /\ secrets'[id].content = content
                  /\ "content" \notin DOMAIN response.data

C12_RoundTripWhileLive == []C12_GatesWhileLive /\ [][C12_ContentKept]_vars

C12_Witness ==
    \E id \in DOMAIN secrets :
        /\ secrets[id].content = "Y"
        /\ disclosed[id] = MaxCalls

\* C13: a successful update sets the title and the expiresAt given (a field
\* not given stays) and changes nothing else: the other fields of the secret,
\* the other secrets and the access log are as before.
C13_UpdateWriteFrame ==
    \A p \in Procs :
        (/\ At(p, "update", "write")
         /\ req[p].id \in DOMAIN secrets
         /\ req'[p] = Idle) =>
            LET id == req[p].id
            IN  /\ DOMAIN secrets' = DOMAIN secrets
                /\ secrets'[id] =
                      [secrets[id] EXCEPT
                          !.title = IF req[p].title = Null THEN @ ELSE req[p].title,
                          !.expiresAt = IF req[p].expiresAt = NoDate THEN @
                                        ELSE req[p].expiresAt]
                /\ \A other \in DOMAIN secrets \ {id} : secrets'[other] = secrets[other]
                /\ accessLogs' = accessLogs

C13_UpdateFrame == [][C13_UpdateWriteFrame]_vars

C13_Witness ==
    \E id \in DOMAIN secrets :
        /\ secrets[id].title = "t2"
        /\ secrets[id].expiresAt = MaxTime + 1
        /\ secrets[id].password # NoHash
        /\ secrets[id].hasBeenAccessed
        /\ DOMAIN secrets # {id}
        /\ accessLogs # <<>>

\* C14: hasBeenAccessed is false in the row create inserts, never goes from
\* true to false, and goes from false to true only in the step of a getBySlug
\* that returns the content of a one-time secret; a secret that is not
\* one-time never has it true.
C14_FlagOnlyOfOneTime ==
    \A id \in DOMAIN secrets :
        secrets[id].hasBeenAccessed =>
            secrets[id].isOneTimeAccess /\ disclosed[id] >= 1

C14_FlagSteps ==
    /\ \A id \in DOMAIN secrets' \ DOMAIN secrets : ~secrets'[id].hasBeenAccessed
    /\ \A id \in DOMAIN secrets \cap DOMAIN secrets' :
          /\ secrets[id].hasBeenAccessed => secrets'[id].hasBeenAccessed
          /\ (~secrets[id].hasBeenAccessed /\ secrets'[id].hasBeenAccessed) =>
                \E p \in Procs :
                    /\ At(p, "getBySlug", "mark")
                    /\ req[p].secret.id = id
                    /\ secrets[id].isOneTimeAccess
                    /\ GetBySlugMarkResponse(p).code = "OK"
                    /\ disclosed'[id] = disclosed[id] + 1
                    /\ req'[p] = Idle

C14_FlagMonotone == []C14_FlagOnlyOfOneTime /\ [][C14_FlagSteps]_vars

C14_Witness ==
    \E id, other \in DOMAIN secrets :
        /\ secrets[id].hasBeenAccessed
        /\ secrets[id].title = "t2"
        /\ ~secrets[other].isOneTimeAccess
        /\ disclosed[other] >= 1
        /\ ~secrets[other].hasBeenAccessed

\* C15: no result of create, checkRequirements, getUserSecrets, update and
\* delete has a content or a password field, and no result of getBySlug a
\* password field; the rows of the list carry hasPassword, true exactly for
\* the secrets with a hash.
Hidden(data) == DOMAIN data \cap {"content", "password"} = {}

C15_NoContentNoHash ==
    /\ \A slug \in Slugs :
          CheckRequirementsResponse(slug).code = "OK" =>
              Hidden(CheckRequirementsResponse(slug).data)
    /\ \A slug \in Slugs, password \in {Null, "p"}, flag \in BOOLEAN,
          user \in {Null, Owner} :
          LET response == CreateResponse(slug, "t", "X", password, NoDate, flag,
                                         user, Client)
          IN  response.code = "OK" => Hidden(response.data)
    /\ \A user \in Users, page \in Pages, limit \in PageLimits :
          LET response == GetUserSecretsResponse(user, page, limit)
          IN  /\ response.code = "OK"
              /\ Hidden(response.data)
              /\ \A i \in DOMAIN response.data.secrets :
                    LET row == response.data.secrets[i]
                    IN  /\ Hidden(row)
                        /\ row.hasPassword = (secrets[row.id].password # NoHash)
    /\ \A p \in Procs :
          /\ (At(p, "update", "write") /\ UpdateWriteResponse(p).code = "OK") =>
                Hidden(UpdateWriteResponse(p).data)
          /\ (At(p, "delete", "write") /\ DeleteWriteResponse(p).code = "OK") =>
                Hidden(DeleteWriteResponse(p).data)
          /\ (At(p, "getBySlug", "log") /\ GetBySlugLogResponse(p).code = "OK") =>
                "password" \notin DOMAIN GetBySlugLogResponse(p).data
          /\ (At(p, "getBySlug", "mark") /\ GetBySlugMarkResponse(p).code = "OK") =>
                "password" \notin DOMAIN GetBySlugMarkResponse(p).data

C15_Witness ==
    /\ At("r1", "update", "write")
    /\ UpdateWriteResponse("r1").code = "OK"
    /\ secrets[req["r1"].id].password # NoHash
    /\ Len(GetUserSecretsResponse(Owner, 2, 1).data.secrets) = 1
    /\ \E i \in {1, 2} :
          GetUserSecretsResponse(Owner, 1, 10).data.secrets[i].hasPassword

\* C16: a check changes the bucket of its own class and identity and no other
\* bucket, and leaves the result a check of any other class or identity would
\* have; the four classes keep their own limits: general 100 in 15 minutes,
\* creation 10 in 60, disclosure 20 in 5, authentication 5 in 15.
Classes == {"general", "secretCreate", "secretAccess", "auth"}
ClassOf(op) ==
    IF op = "getBySlug" THEN "secretAccess"
    ELSE IF op \in {"register", "login"} THEN "auth"
    ELSE "none"
BucketOf(lim, class, identifier) ==
    IF identifier \in DOMAIN lim[class].store THEN lim[class].store[identifier]
    ELSE NoEntry
Outcome(lim, class, identifier, t) ==
    LET result == RateLimiterCheck(lim[class], identifier, t)
    IN  <<result.allowed, result.remainingRequests, result.resetTime>>

C16_OwnLimits ==
    /\ limiter.general.windowMs = 15 /\ limiter.general.maxRequests = 100
    /\ limiter.secretCreate.windowMs = 60 /\ limiter.secretCreate.maxRequests = 10
    /\ limiter.secretAccess.windowMs = 5 /\ limiter.secretAccess.maxRequests = 20
    /\ limiter.auth.windowMs = 15 /\ limiter.auth.maxRequests = 5
    /\ \A class \in Classes, c \in RLClients :
          BucketOf(limiter, class, c).count <= limiter[class].maxRequests

C16_OneBucketPerCheck ==
    LET changed == {b \in Classes \X RLClients :
                      BucketOf(limiter', b[1], b[2]) # BucketOf(limiter, b[1], b[2])}
    IN  /\ Cardinality(changed) <= 1
        /\ \A b \in (Classes \X RLClients) \ changed :
              Outcome(limiter', b[1], b[2], now') = Outcome(limiter, b[1], b[2], now)
        /\ \A b \in changed :
              \/ b[1] = "secretCreate" /\ req' = req
              \/ \E p \in Procs :
                    /\ req[p].pc = "idle"
                    /\ ClassOf(req'[p].op) = b[1]
                    /\ req'[p].client = b[2]

C16_BucketsIsolated == []C16_OwnLimits /\ [][C16_OneBucketPerCheck]_vars

C16_Witness ==
    /\ BucketOf(limiter, "auth", "10.0.0.1").count = AuthMax
    /\ BucketOf(limiter, "auth", "10.0.0.2").count = 1
    /\ BucketOf(limiter, "secretAccess", "10.0.0.1").count = 0
    /\ BucketOf(limiter, "secretAccess", "10.0.0.2").count = MaxCalls
    /\ BucketOf(limiter, "secretCreate", "10.0.0.1").count = 1
    /\ LoginStartResponse("10.0.0.1").code = "TOO_MANY_REQUESTS"
    /\ LoginStartResponse("10.0.0.2") = NoResult

\* C17: every request counts in the general bucket of its identity: an
\* identity with a bucket in any class has a general bucket with at least that
\* count, so that its requests after the 100th of a window are rejected.
C17_GeneralCountsAll ==
    \A class \in Classes, c \in RLClients :
        BucketOf(limiter, "general", c).count >= BucketOf(limiter, class, c).count

\* C18: no two stored secrets have the same slug, and a stored secret keeps
\* its slug in every step until it is deleted.
C18_SlugsDiffer ==
    \A a, b \in DOMAIN secrets : a # b => secrets[a].slug # secrets[b].slug

C18_SlugKept ==
    \A id \in DOMAIN secrets \cap DOMAIN secrets' :
        secrets'[id].slug = secrets[id].slug

C18_SlugUniqueAndStable == []C18_SlugsDiffer /\ [][C18_SlugKept]_vars

C18_Witness ==
    /\ DOMAIN secrets = {1, 2}
    /\ secrets[1].title = "t2"
    /\ secrets[2].hasBeenAccessed
    /\ CreateResponse(secrets[1].slug, "t", "X", Null, NoDate, FALSE, Owner,
                      Client) = InternalError

\* C19: a create whose generated slug is the slug of a stored secret, and
\* which the rate limit admits, succeeds with a slug that no stored secret has.
C19_CollisionRetried ==
    \A slug \in Slugs :
        LET response == CreateResponse(slug, "t", "X", Null, NoDate, FALSE,
                                       Owner, Client)
        IN  (Found(FindUniqueBySlug(slug)) /\ response.code # "TOO_MANY_REQUESTS") =>
               /\ response.code = "OK"
               /\ ~Found(FindUniqueBySlug(response.data.slug))

\* C20: create checks the secret-creation limit of the requester's address
\* first: a create of an identity whose bucket is full answers
\* TOO_MANY_REQUESTS, and a secret is inserted only in a step that counts one
\* more allowed check in a bucket, whose count never exceeds maxRequests: at
\* most maxRequests secrets per identity and window.
Full(rl, identifier, t) ==
    /\ identifier \in DOMAIN rl.store
    /\ ~(t > rl.store[identifier].resetTime)
    /\ rl.store[identifier].count >= rl.maxRequests

C20_FullBucketRejects ==
    \A client \in RLClients :
        /\ BucketOf(limiter, "secretCreate", client).count
              <= limiter.secretCreate.maxRequests
        /\ Full(limiter.secretCreate, client, now) =>
              \A slug \in Slugs :
                  CreateResponse(slug, "t", "X", Null, NoDate, FALSE, Null,
                                 client).code = "TOO_MANY_REQUESTS"

C20_InsertIsCounted ==
    secrets' # secrets =>
        \E client \in RLClients :
            LET old == BucketOf(limiter, "secretCreate", client)
                new == BucketOf(limiter', "secretCreate", client)
            IN  /\ ~Full(limiter.secretCreate, client, now)
                /\ \/ new.resetTime = old.resetTime /\ new.count = old.count + 1
                   \/ /\ new.count = 1
                      /\ new.resetTime = now + limiter.secretCreate.windowMs
                      /\ old = NoEntry \/ now > old.resetTime
                /\ \A other \in RLClients \ {client} :
                      BucketOf(limiter', "secretCreate", other)
                         = BucketOf(limiter, "secretCreate", other)

C20_CreateIsLimited == []C20_FullBucketRejects /\ [][C20_InsertIsCounted]_vars

C20_Witness ==
    /\ limiter.secretCreate.maxRequests = 1
    /\ DOMAIN secrets = {1, 2}
    /\ now >= 2
    /\ Full(limiter.secretCreate, "10.0.0.1", now)
    /\ ~Full(limiter.secretCreate, "10.0.0.2", now)
    /\ CreateResponse("s1", "t", "X", Null, NoDate, FALSE, Null,
                      "10.0.0.1").code = "TOO_MANY_REQUESTS"

\* C21: a create, getBySlug, register or login that the rate limit rejects
\* answers TOO_MANY_REQUESTS, and the answer carries the resetTime of the
\* bucket that rejected it.
CarriesResetAt(response, entry) ==
    /\ response.code = "TOO_MANY_REQUESTS"
    /\ DOMAIN response \cap {"resetAt", "resetTime"} # {}
    /\ \A f \in DOMAIN response \cap {"resetAt", "resetTime"} :
          response[f] = entry.resetTime

C21_RejectionCarriesResetAt ==
    \A client \in RLClients :
        /\ Full(limiter.secretCreate, client, now) =>
              CarriesResetAt(CreateResponse("s1", "t", "X", Null, NoDate, FALSE,
                                            Null, client),
                             BucketOf(limiter, "secretCreate", client))
        /\ Full(limiter.secretAccess, client, now) =>
              CarriesResetAt(GetBySlugStartResponse(client),
                             BucketOf(limiter, "secretAccess", client))
        /\ Full(limiter.auth, client, now) =>
              /\ CarriesResetAt(RegisterStartResponse(client),
                                BucketOf(limiter, "auth", client))
              /\ CarriesResetAt(LoginStartResponse(client),
                                BucketOf(limiter, "auth", client))

\* C22: a successful delete removes the secret and its access log entries, and
\* right after it getBySlug and checkRequirements of its slug answer NOT_FOUND;
\* in every state every access log entry is of a stored secret, and a getBySlug
\* that is in flight for a deleted secret returns no content.
C22_NoOrphansNoLateContent ==
    /\ \A i \in DOMAIN accessLogs : accessLogs[i].secretId \in DOMAIN secrets
    /\ \A p \in Procs :
          /\ (At(p, "getBySlug", "log") /\ req[p].secret.id \notin DOMAIN secrets) =>
                GetBySlugLogResponse(p) = InternalError
          /\ (At(p, "getBySlug", "mark") /\ req[p].secret.id \notin DOMAIN secrets) =>
                GetBySlugMarkResponse(p) = InternalError

C22_DeleteStep ==
    \A p \in Procs, slug \in Slugs :
        (/\ At(p, "delete", "write")
         /\ DeleteWriteResponse(p).code = "OK"
         /\ secrets[req[p].id].slug = slug
         /\ req'[p] = Idle) =>
            LET id == req[p].id
            IN  /\ DOMAIN secrets' = DOMAIN secrets \ {id}
                /\ \A other \in DOMAIN secrets' : secrets'[other] = secrets[other]
                /\ accessLogs' = SelectSeq(accessLogs, LAMBDA e : e.secretId # id)
                /\ CheckRequirementsResponse(slug)' =
                      TRPCError("NOT_FOUND", "Secret not found")
                /\ \A q \in Procs :
                      (At(q, "getBySlug", "find") /\ req[q].slug = slug) =>
                          GetBySlugFindResponse(q)' =
                              TRPCError("NOT_FOUND", "Secret not found")
                /\ disclosed' = disclosed

C22_LateStep ==
    \A p \in Procs :
        (/\ req[p].op = "getBySlug" /\ req[p].pc \in {"log", "mark"}
         /\ req[p].secret.id \notin DOMAIN secrets
         /\ req'[p] = Idle) =>
            disclosed' = disclosed /\ accessLogs' = accessLogs /\ secrets' = secrets

C22_DeleteCascades ==
    []C22_NoOrphansNoLateContent /\ [][C22_DeleteStep /\ C22_LateStep]_vars

C22_Witness ==
    \E p, q \in Procs :
        /\ At(p, "getBySlug", "mark")
        /\ req[p].secret.id \notin DOMAIN secrets
        /\ At(q, "getBySlug", "find")
        /\ req[q].slug = req[p].secret.slug
        /\ GetBySlugFindResponse(q).code = "NOT_FOUND"
        /\ CheckRequirementsResponse(req[q].slug).code = "NOT_FOUND"
        /\ accessLogs = <<>>
        /\ disclosed[req[p].secret.id] = 0

\* C23: no two accounts have the same email, and a register whose email is
\* stored when it looks it up or when it inserts answers CONFLICT and creates
\* no account, however the register calls interleave.
C23_DuplicateIsConflict ==
    /\ \A i, j \in DOMAIN users : users[i].email = users[j].email => i = j
    /\ \A p \in Procs :
          FindUserByEmail(req[p].email) # NoUser =>
              /\ At(p, "register", "find") =>
                    RegisterFindResponse(p).code = "CONFLICT"
              /\ At(p, "register", "create") =>
                    RegisterCreateResponse(p).code = "CONFLICT"

\* C24: a request whose token is expired, malformed or signed with another key
\* has no user: create answers and stores as without a token (the secret has
\* no owner), getUserSecrets, update, delete and me answer UNAUTHORIZED, and
\* no update or delete with such a token is a step that changes the state.
Invalid(token, t) ==
    \/ token.form = "garbage"
    \/ token.form = "jwt" /\ (token.key # JwtSecret \/ t >= token.exp)

C24_AnswersAsAnonymous ==
    \A token \in Tokens :
        Invalid(token, now) =>
            LET user == CreateTRPCContext(token, now)
                anonymous == CreateTRPCContext(NoToken, now)
            IN  /\ \A slug \in Slugs :
                      /\ CreateResponse(slug, "t", "X", Null, NoDate, FALSE, user, Client)
                           = CreateResponse(slug, "t", "X", Null, NoDate, FALSE,
                                            anonymous, Client)
                      /\ NewSecret(nextId, slug, "t", "X", Null, NoDate, FALSE, user)
                           = NewSecret(nextId, slug, "t", "X", Null, NoDate, FALSE,
                                       anonymous)
                      /\ NewSecret(nextId, slug, "t", "X", Null, NoDate, FALSE,
                                   user).userId = Null
                /\ \A page \in Pages, limit \in PageLimits :
                      GetUserSecretsResponse(user, page, limit) = NotAuthenticated
                /\ MeResponse(user) = NotAuthenticated
                /\ \A id \in 1 .. MaxSecrets :
                      /\ UpdateStartResponse(id, user) = NotAuthenticated
                      /\ DeleteStartResponse(id, user) = NotAuthenticated

C24_ChangesNothing ==
    \A user \in {CreateTRPCContext(token, now) :
                    token \in {t \in Tokens : Invalid(t, now)}} :
        /\ \A id \in 1 .. MaxSecrets :
              /\ UpdateStart("r1", id, "t2", MaxTime + 1, user) => UNCHANGED vars
              /\ DeleteStart("r1", id, user) => UNCHANGED vars
        /\ \A slug \in Slugs :
              Create(slug, "t", "X", Null, NoDate, FALSE, user, Client) =>
                  \A id \in DOMAIN secrets' \ DOMAIN secrets :
                      secrets'[id].userId = Null

C24_InvalidTokenIsAnonymous ==
    []C24_AnswersAsAnonymous /\ [][C24_ChangesNothing]_vars

C24_Witness ==
    /\ now >= 1
    /\ \E id \in DOMAIN secrets : secrets[id].userId = Owner
    /\ \E id \in DOMAIN secrets : secrets[id].userId = Null
    /\ UpdateStartResponse(1, CreateTRPCContext(ExpiringToken, now)) = NotAuthenticated
    /\ UpdateStartResponse(1, CreateTRPCContext(ExpiringToken, 0)) = NoResult

\* C25: a login for an email without account and a login with a wrong
\* password for an email with one get the same answer, code and message; a
\* login gets a token only with the password of the account of its email.
LoginSteps == {p \in Procs : At(p, "login", "find")}

C25_SameAnswer ==
    /\ \A p, q \in LoginSteps :
          (LoginFindResponse(p).code # "OK" /\ LoginFindResponse(q).code # "OK") =>
              LoginFindResponse(p) = LoginFindResponse(q)
    /\ \A p \in LoginSteps :
          LET user == FindUserByEmail(req[p].email)
          IN  IF user # NoUser /\ user.password = BcryptHash(req[p].password)
              THEN /\ LoginFindResponse(p).code = "OK"
                   /\ LoginFindResponse(p).data.user.id = user.id
              ELSE LoginFindResponse(p).code = "UNAUTHORIZED"

C25_Witness ==
    /\ At("r1", "login", "find") /\ At("r2", "login", "find")
    /\ FindUserByEmail(req["r1"].email) = NoUser
    /\ FindUserByEmail(req["r2"].email) # NoUser
    /\ LoginFindResponse("r2").code = "UNAUTHORIZED"
    /\ LoginFindResponse("r1") = LoginFindResponse("r2")

\* C26: register and login count in one bucket per identity: each of them
\* that is admitted counts one more check in the authentication bucket of its
\* client, whose count never exceeds maxRequests (5 in 15 minutes); while the
\* bucket is full both answer TOO_MANY_REQUESTS and change nothing, and an
\* account is created only by a register that was admitted.
C26_FullRejectsBoth ==
    \A client \in RLClients :
        /\ BucketOf(limiter, "auth", client).count <= limiter.auth.maxRequests
        /\ Full(limiter.auth, client, now) =>
              /\ RegisterStartResponse(client).code = "TOO_MANY_REQUESTS"
              /\ LoginStartResponse(client).code = "TOO_MANY_REQUESTS"
        /\ ~Full(limiter.auth, client, now) =>
              /\ RegisterStartResponse(client) = NoResult
              /\ LoginStartResponse(client) = NoResult

C26_AuthSteps ==
    /\ \A p \in Procs :
          (req[p].pc = "idle" /\ req'[p].op \in {"login", "register"}) =>
              LET client == req'[p].client
                  old == BucketOf(limiter, "auth", client)
                  new == BucketOf(limiter', "auth", client)
              IN  /\ ~Full(limiter.auth, client, now)
                  /\ \/ new.resetTime = old.resetTime /\ new.count = old.count + 1
                     \/ /\ new.count = 1
                        /\ new.resetTime = now + limiter.auth.windowMs
                        /\ old = NoEntry \/ now > old.resetTime
    /\ \A client \in RLClients :
          Full(limiter.auth, client, now) =>
              /\ RegisterStart("r1", "C", "c@x.io", "secret3", client) => UNCHANGED vars
              /\ \A password \in {"secret1", "wrong00"} :
                    LoginStart("r1", "a@x.io", password, client) => UNCHANGED vars
    /\ users' # users =>
          \E p \in Procs : At(p, "register", "create") /\ req'[p] = Idle

C26_AuthIsOneClass == []C26_FullRejectsBoth /\ [][C26_AuthSteps]_vars

C26_Witness ==
    /\ limiter.auth.maxRequests = AuthMax
    /\ limiter.auth.windowMs = AuthWindow
    /\ Full(limiter.auth, "10.0.0.1", now)
    /\ ~Full(limiter.auth, "10.0.0.2", now)
    /\ FindUserByEmail("c@x.io") # NoUser
    /\ At("r1", "login", "find")
    /\ req["r1"].client = "10.0.0.1"
    /\ LoginFindResponse("r1").code = "UNAUTHORIZED"
    /\ RegisterStartResponse("10.0.0.1").code = "TOO_MANY_REQUESTS"

\* C27: a one-time secret whose content getBySlug has returned is deleted: no
\* row of it (and so no content) is stored, and no row of its owner's list is
\* this secret.
C27_ConsumedIsDeleted ==
    /\ \A id \in DOMAIN secrets : ~IsConsumed(secrets[id])
    /\ \A user \in Users :
          LET rows == GetUserSecretsResponse(user, 1, 10).data.secrets
          IN  \A i \in DOMAIN rows :
                  ~(rows[i].isOneTimeAccess /\ disclosed[rows[i].id] >= 1)

\* C28: a stored secret with hasBeenAccessed has an access log entry; the
\* flag is set only by a request that has written its entry before, in a step
\* that leaves the access log as it is.
C28_FlaggedIsLogged ==
    \A id \in DOMAIN secrets :
        secrets[id].hasBeenAccessed => AccessCount(id) >= 1

C28_LogThenFlag ==
    \A id \in DOMAIN secrets \cap DOMAIN secrets' :
        (~secrets[id].hasBeenAccessed /\ secrets'[id].hasBeenAccessed) =>
            /\ AccessCount(id) >= 1
            /\ accessLogs' = accessLogs
            /\ \E p \in Procs :
                  At(p, "getBySlug", "mark") /\ req[p].secret.id = id /\ req'[p] = Idle

C28_LoggedBeforeFlagged == []C28_FlaggedIsLogged /\ [][C28_LogThenFlag]_vars

C28_Witness ==
    /\ \A p \in Procs : req[p].pc = "idle"
    /\ \E id, other \in DOMAIN secrets :
          /\ secrets[id].hasBeenAccessed
          /\ AccessCount(id) >= 1
          /\ secrets[other].isOneTimeAccess
          /\ ~secrets[other].hasBeenAccessed
          /\ AccessCount(other) >= 1

\* C29: the accessCount getUserSecrets shows for a stored secret is the number
\* of getBySlug calls that have returned its content, whenever no getBySlug
\* of the secret is between its two writes: an entry is appended once for
\* each call that returns the content and for no other.
C29_CountIsDisclosures ==
    \A id \in DOMAIN secrets :
        (\A p \in Procs : ~(At(p, "getBySlug", "mark") /\ req[p].secret.id = id)) =>
            ListRow(secrets[id]).accessCount = disclosed[id]

\* C30: the count of every bucket is between 1 and maxRequests; a check that
\* is rejected reports 0 remaining and leaves the instance as it is, a check
\* that is allowed reports maxRequests minus the count it stores.
C30_CountsAndRemaining ==
    \A class \in Classes :
        LET rl == limiter[class]
        IN  /\ \A c \in DOMAIN rl.store :
                  rl.store[c].count >= 1 /\ rl.store[c].count <= rl.maxRequests
            /\ \A client \in RLClients :
                  LET result == RateLimiterCheck(rl, client, now)
                  IN  IF result.allowed
                      THEN /\ result.remainingRequests =
                                 rl.maxRequests - result.rl.store[client].count
                           /\ result.remainingRequests >= 0
                           /\ result.resetTime = result.rl.store[client].resetTime
                           /\ ~Full(rl, client, now)
                      ELSE /\ result.remainingRequests = 0
                           /\ result.rl = rl
                           /\ result.resetTime = rl.store[client].resetTime
                           /\ Full(rl, client, now)

C30_RejectedLeavesBucket ==
    \A client \in RLClients :
        (/\ Full(limiter.secretAccess, client, now)
         /\ \E p \in Procs : GetBySlugStart(p, "s1", Null, client)) =>
            /\ limiter' = limiter
            /\ req' = req

C30_BucketBounds == []C30_CountsAndRemaining /\ [][C30_RejectedLeavesBucket]_vars

C30_Witness ==
    \E c, d \in RLClients :
        /\ limiter.secretAccess.maxRequests = RLMaxRequests
        /\ Full(limiter.secretAccess, c, now)
        /\ seen[c].n - seen[c].ok = RLMaxRejects
        /\ seen[c].k >= 2
        /\ BucketOf(limiter, "secretAccess", d).count = 1
        /\ RateLimiterCheck(limiter.secretAccess, d, now).allowed
        /\ RateLimiterCheck(limiter.secretAccess, d, now).remainingRequests
              = RLMaxRequests - 2

\* C31: the window is fixed: while now <= resetTime a bucket stays and its
\* resetTime is the one its window started with, whatever checks are made,
\* allowed or rejected; a check at now = resetTime is answered from the old
\* window; the first check with now > resetTime is allowed and starts a
\* window of count 1 that ends windowMs later, however many checks were
\* rejected before.
C31_OldWindowUntilAfterReset ==
    \A c \in DOMAIN limiter.secretAccess.store :
        LET rl == limiter.secretAccess
            entry == rl.store[c]
            result == RateLimiterCheck(rl, c, now)
        IN  IF now > entry.resetTime
            THEN /\ result.allowed
                 /\ result.rl.store[c] = [count |-> 1, resetTime |-> now + rl.windowMs]
                 /\ result.resetTime = now + rl.windowMs
            ELSE /\ result.resetTime = entry.resetTime
                 /\ result.rl.store[c].resetTime = entry.resetTime
                 /\ result.allowed = (entry.count < rl.maxRequests)

C31_ResetTimeStays ==
    \A c \in DOMAIN limiter.secretAccess.store :
        LET entry == limiter.secretAccess.store[c]
        IN  IF now <= entry.resetTime
            THEN /\ c \in DOMAIN limiter.secretAccess.store'
                 /\ limiter.secretAccess.store'[c].resetTime = entry.resetTime
            ELSE (/\ c \in DOMAIN limiter.secretAccess.store'
                  /\ limiter.secretAccess.store'[c] # entry) =>
                     /\ limiter.secretAccess.store'[c] =
                           [count |-> 1,
                            resetTime |-> now + limiter.secretAccess.windowMs]
                     /\ seen'[c].k = seen[c].k + 1
                     /\ seen'[c].ok = 1

C31_FixedWindow == []C31_OldWindowUntilAfterReset /\ [][C31_ResetTimeStays]_vars

\* a client that was admitted again after a window, is full again and is
\* rejected at the very instant its window ends
C31_Witness ==
    \E c \in DOMAIN limiter.secretAccess.store :
        /\ seen[c].k >= 2
        /\ now = limiter.secretAccess.store[c].resetTime
        /\ Full(limiter.secretAccess, c, now)
        /\ Rejected(c) >= 1

\* the secret-access instance as it would be had cleanup never run: the
\* bucket of every identifier that ever made a check
Unpurged ==
    [limiter.secretAccess EXCEPT !.store =
        [c \in DOMAIN seen |-> [count |-> seen[c].ok, resetTime |-> seen[c].end]]]

Answer(result) ==
    [allowed |-> result.allowed, remainingRequests |-> result.remainingRequests,
     resetTime |-> result.resetTime]

\* C32: the check any identifier makes is answered alike (allowed, remaining
\* requests, resetTime) by the instance that cleanup purges at arbitrary
\* points and by the one that is never purged; the buckets that are missing
\* from the purged instance are buckets with now > resetTime.
C32_SameAnswers ==
    LET rl == limiter.secretAccess
    IN  /\ DOMAIN rl.store \subseteq DOMAIN Unpurged.store
        /\ \A c \in DOMAIN rl.store : rl.store[c] = Unpurged.store[c]
        /\ \A c \in DOMAIN Unpurged.store \ DOMAIN rl.store :
              now > Unpurged.store[c].resetTime
        /\ \A c \in RLClients :
              Answer(RateLimiterCheck(rl, c, now)) =
                 Answer(RateLimiterCheck(Unpurged, c, now))

\* C32: every check moves the unpurged instance as RateLimiter.check does, no
\* other step moves it, and a step removes only buckets with now > resetTime.
C32_UnpurgedSteps ==
    /\ \A c \in RLClients :
          IF c \in DOMAIN seen' /\ (c \in DOMAIN seen => seen'[c] # seen[c])
          THEN Unpurged' = RateLimiterCheck(Unpurged, c, now).rl
          ELSE c \in DOMAIN seen => seen'[c] = seen[c]
    /\ seen' = seen => Unpurged' = Unpurged
    /\ \A c \in DOMAIN limiter.secretAccess.store :
          c \notin DOMAIN limiter.secretAccess.store' =>
             now > limiter.secretAccess.store[c].resetTime

C32_CleanupIsUnobservable == []C32_SameAnswers /\ [][C32_UnpurgedSteps]_vars

\* cleanup has purged the bucket of one client, another client has been
\* admitted to a second window and is rejected in it
C32_Witness ==
    \E c, d \in DOMAIN seen :
        /\ c \notin DOMAIN limiter.secretAccess.store
        /\ d \in DOMAIN limiter.secretAccess.store
        /\ seen[d].k >= 2
        /\ Rejected(d) >= 1

\* C33: the bucket of the client counts its getBySlug calls and nothing else,
\* and a one-time secret is consumed only when a getBySlug has returned its
\* content, however many probes were made.
C33_QuotaAndFlagOfGetBySlug ==
    /\ Count(limiter.secretAccess, Client) =
          (IF Client \in DOMAIN seen THEN seen[Client].ok ELSE 0)
    /\ \A id \in DOMAIN secrets :
          secrets[id].hasBeenAccessed => disclosed[id] >= 1

\* C33: a checkRequirements step changes no secret, no access log entry and
\* no bucket; a bucket of secret access changes only by the check of a
\* getBySlug, the log only by the insert of a getBySlug, the flag only by the
\* update of a getBySlug.
C33_ProbeFrame ==
    /\ \A slug \in Slugs :
          CheckRequirements(slug) => UNCHANGED <<secrets, accessLogs, limiter>>
    /\ limiter' # limiter =>
          \/ seen' # seen
          \/ limiter'.secretAccess = limiter.secretAccess
    /\ accessLogs' # accessLogs /\ Len(accessLogs') > Len(accessLogs) =>
          \E p \in Procs : At(p, "getBySlug", "log")
    /\ \A id \in DOMAIN secrets :
          (/\ id \in DOMAIN secrets'
           /\ secrets'[id].hasBeenAccessed
           /\ ~secrets[id].hasBeenAccessed) =>
              \E p \in Procs : At(p, "getBySlug", "mark") /\ req[p].secret.id = id

C33_ProbeIsReadOnly == []C33_QuotaAndFlagOfGetBySlug /\ [][C33_ProbeFrame]_vars

\* a protected one-time secret that a getBySlug with a wrong password has
\* tried: the probe still answers, the secret is not consumed and the client
\* has quota left
C33_Witness ==
    \E slug \in Slugs :
        LET response == CheckRequirementsResponse(slug)
        IN  /\ response.code = "OK"
            /\ response.data.isOneTimeAccess
            /\ response.data.requiresPassword
            /\ ~FindUniqueBySlug(slug).hasBeenAccessed
            /\ Count(limiter.secretAccess, Client) = 1
            /\ accessLogs = <<>>
            /\ \A p \in Procs : req[p].pc = "idle"

\* C34: getBySlug of a stored secret that has a password and is expired or
\* consumed answers NOT_FOUND without a password, with a wrong one and with
\* the right one, never UNAUTHORIZED, and its answer is the answer the same
\* secret without a password would get.
C34_GoneBeforePassword ==
    \A slug \in Slugs :
        LET secret == FindUniqueBySlug(slug)
            plain == [secret EXCEPT !.password = NoHash]
        IN  (/\ Found(secret)
             /\ secret.password # NoHash
             /\ IsExpired(secret, now) \/ IsConsumed(secret)) =>
                /\ \A password \in {Null, "p", "q"} :
                      /\ GetBySlugGate(secret, password, now).code = "NOT_FOUND"
                      /\ GetBySlugGate(secret, password, now) =
                            GetBySlugGate(plain, password, now)
                /\ \A p \in FindSteps(slug) :
                      /\ GetBySlugFindResponse(p).code = "NOT_FOUND"
                      /\ GetBySlugFindResponse(p) =
                            GetBySlugGate(plain, req[p].password, now)

\* a getBySlug with the wrong password is about to look up a protected
\* one-time secret that was disclosed and has expired since
C34_Witness ==
    \E p \in Procs :
        LET secret == FindUniqueBySlug(req[p].slug)
        IN  /\ At(p, "getBySlug", "find")
            /\ req[p].password = "q"
            /\ Found(secret)
            /\ secret.password = BcryptHash("p")
            /\ IsConsumed(secret)
            /\ IsExpired(secret, now)
            /\ GetBySlugFindResponse(p).code = "NOT_FOUND"

\* C35: for a secret with an expiresAt, at every time now >= expiresAt, the
\* instant now = expiresAt included, getBySlug and checkRequirements answer
\* NOT_FOUND.
C35_ExpiredFromExpiresAt ==
    \A slug \in Slugs :
        LET secret == FindUniqueBySlug(slug)
        IN  (Found(secret) /\ secret.expiresAt # NoDate /\ now >= secret.expiresAt) =>
               /\ CheckRequirementsResponse(slug).code = "NOT_FOUND"
               /\ \A p \in FindSteps(slug) :
                     GetBySlugFindResponse(p).code = "NOT_FOUND"

\* C37: an update saved with the expiration field left empty (handleEditSave
\* sends expiresAt undefined, here NoDate) leaves the secret without an
\* expiresAt, whatever expiresAt it had before.
C37_EmptyExpiryClears ==
    [][\A p \in Procs :
          (/\ At(p, "update", "write")
           /\ req[p].expiresAt = NoDate
           /\ req[p].id \in DOMAIN secrets
           /\ req'[p] = Idle) =>
              secrets'[req[p].id].expiresAt = NoDate]_vars

\* C38: update and delete of a stored secret without an owner answer
\* FORBIDDEN to every user, and no request is ever about to write one; a
\* secret without an owner stays stored with its title and its expiresAt,
\* and the userId of a stored secret never changes.
C38_AnonymousIsForbidden ==
    \A id \in DOMAIN secrets :
        secrets[id].userId = Null =>
            /\ \A user \in Users :
                  /\ UpdateStartResponse(id, user).code = "FORBIDDEN"
                  /\ DeleteStartResponse(id, user).code = "FORBIDDEN"
            /\ \A p \in Procs :
                  ~(req[p].op \in {"update", "delete"} /\ req[p].pc = "write"
                    /\ req[p].id = id)

C38_OwnerIsFixed ==
    \A id \in DOMAIN secrets :
        /\ id \in DOMAIN secrets' => secrets'[id].userId = secrets[id].userId
        /\ secrets[id].userId = Null =>
              /\ id \in DOMAIN secrets'
              /\ secrets'[id].title = secrets[id].title
              /\ secrets'[id].expiresAt = secrets[id].expiresAt

C38_AnonymousIsReadOnly == []C38_AnonymousIsForbidden /\ [][C38_OwnerIsFixed]_vars

\* a secret without an owner next to a secret its owner has updated
C38_Witness ==
    \E id, other \in DOMAIN secrets :
        /\ secrets[id].userId = Null
        /\ UpdateStartResponse(id, Owner).code = "FORBIDDEN"
        /\ DeleteStartResponse(id, "u2").code = "FORBIDDEN"
        /\ secrets[other].userId = Owner
        /\ secrets[other].title = "t2"

\* the getBySlug requests between their check of the limiter and their answer
InFlight == {p \in Procs : req[p].op = "getBySlug" /\ req[p].pc # "idle"}

\* C36: every getBySlug that reaches the lookup has been counted in the bucket
\* of its client, so the disclosures and the requests in flight of a client
\* are at most SecretAccessMax for each window it has opened; a getBySlug of a
\* client whose bucket is full answers TOO_MANY_REQUESTS.
C36_CountedBeforeLookup ==
    LET rl == limiter.secretAccess
    IN  /\ rl.windowMs = 5 /\ rl.maxRequests = 20
        /\ Client \in DOMAIN seen =>
              /\ seen[Client].ok <= SecretAccessMax
              /\ Len(accessLogs) + Cardinality(InFlight)
                    <= SecretAccessMax * (seen[Client].k - 1) + seen[Client].ok
        /\ InFlight # {} => Count(rl, Client) >= 1
        /\ Full(rl, Client, now) =>
              GetBySlugStartResponse(Client).code = "TOO_MANY_REQUESTS"

\* C36: the step that takes a getBySlug to its lookup is the step that counts
\* it, whatever the lookup and the password will give; the step of a
\* rate-limited getBySlug starts no request and changes no secret, no log
\* entry and no bucket; the lookup and the insert of the log change no bucket.
C36_StartCounts ==
    \A p \in Procs :
        /\ (req[p].pc = "idle" /\ At(p, "getBySlug", "find")') =>
              /\ ~Full(limiter.secretAccess, Client, now)
              /\ Count(limiter.secretAccess, Client)' =
                    (IF Client \in DOMAIN limiter.secretAccess.store
                        /\ ~(now > limiter.secretAccess.store[Client].resetTime)
                     THEN Count(limiter.secretAccess, Client) + 1 ELSE 1)
              /\ UNCHANGED <<secrets, accessLogs, disclosed>>
        /\ (req[p].pc = "idle" /\ seen' # seen /\ Full(limiter.secretAccess, Client, now)) =>
              UNCHANGED <<req, secrets, accessLogs, disclosed, limiter>>
        /\ (At(p, "getBySlug", "find") \/ At(p, "getBySlug", "log")) =>
              limiter'.secretAccess = limiter.secretAccess

C36_EveryAttemptCounts == []C36_CountedBeforeLookup /\ [][C36_StartCounts]_vars

\* in its second window the client has used its 20 checks on both slugs and
\* both passwords, with disclosures among them, and has been rejected since
C36_Witness ==
    /\ Client \in DOMAIN seen
    /\ seen[Client].k = 2
    /\ Full(limiter.secretAccess, Client, now)
    /\ Count(limiter.secretAccess, Client) = SecretAccessMax
    /\ Rejected(Client) >= 1
    /\ Len(accessLogs) >= 1
    /\ Len(accessLogs) < SecretAccessMax
    /\ InFlight = {}

\* C39: create stores a hash exactly for a password that is given and not
\* empty; a stored secret without a hash passes the gates of getBySlug with
\* any password and without one; for a secret with a hash the empty string
\* is answered like no password, UNAUTHORIZED "Password required", not
\* "Invalid password".
C39_HashIffPassword ==
    /\ \A password \in {Null, "", "p"} :
          LET secret == NewSecret(nextId, "s1", "t", "X", password, NoDate, FALSE, Owner)
          IN  /\ (secret.password = NoHash) = (password \in {Null, ""})
              /\ password = "p" => secret.password = BcryptHash("p")
    /\ \A id \in DOMAIN secrets :
          LET secret == secrets[id]
          IN  /\ secret.password \in {NoHash, BcryptHash("p")}
              /\ secret.password = NoHash =>
                    /\ \A password \in {Null, "", "p", "q"} :
                          GetBySlugGate(secret, password, now) = Pass
                    /\ \A p \in FindSteps(secret.slug) :
                          GetBySlugFindResponse(p) = NoResult
              /\ secret.password # NoHash =>
                    /\ GetBySlugGate(secret, "", now) =
                          TRPCError("UNAUTHORIZED", "Password required")
                    /\ GetBySlugGate(secret, Null, now) = GetBySlugGate(secret, "", now)
                    /\ GetBySlugGate(secret, "q", now) =
                          TRPCError("UNAUTHORIZED", "Invalid password")
                    /\ GetBySlugGate(secret, "p", now) = Pass
                    /\ \A p \in FindSteps(secret.slug) :
                          GetBySlugFindResponse(p) =
                             (IF req[p].password = "p" THEN NoResult
                              ELSE GetBySlugGate(secret, req[p].password, now))

\* C39: the content of a secret without a hash is returned to a getBySlug
\* that has passed the lookup, whatever password it carries.
C39_PasswordIgnored ==
    \A p \in Procs :
        (/\ At(p, "getBySlug", "log")
         /\ req[p].secret.password = NoHash
         /\ req'[p] # req[p]) =>
            /\ req'[p] = Idle
            /\ GetBySlugLogResponse(p) = GetBySlugResult(req[p].secret)
            /\ disclosed'[req[p].secret.id] = disclosed[req[p].secret.id] + 1

C39_PasswordOnlyWithHash == []C39_HashIffPassword /\ [][C39_PasswordIgnored]_vars

\* a getBySlug with a password is about to return the content of a secret
\* without a hash, next to a secret with a hash
C39_Witness ==
    \E p \in Procs, id \in DOMAIN secrets :
        /\ At(p, "getBySlug", "log")
        /\ req[p].password = "q"
        /\ req[p].secret.password = NoHash
        /\ secrets[id].password = BcryptHash("p")
        /\ GetBySlugGate(secrets[id], "", now).message = "Password required"

====
